---- MODULE Spec2Model ----
(***************************************************************************)
(* asic-rs: discovery / classification (MinerFactory::get_miner), backend  *)
(* dispatch (select_backend), multi-address scanning (scan, scan_stream)   *)
(* and the declarative data collection of a backend's location map.        *)
(*                                                                         *)
(* Option<T> values are records with a `some` flag so that every value of  *)
(* one variable has one shape.                                             *)
(***************************************************************************)
EXTENDS Integers, Sequences, FiniteSets, TLC

(***************************************************************************)
(* Bounds of the model.                                                    *)
(***************************************************************************)
\* largest discovery timeout (in clock ticks) a factory is configured with
MaxTimeout == 1
\* most fingerprint tokens one probe response carries
MaxTokens == 2

(***************************************************************************)
(* data::device - MinerMake, MinerFirmware                                 *)
(***************************************************************************)
MinerMake == {"AntMiner", "WhatsMiner", "AvalonMiner", "EPic", "Braiins", "BitAxe"}

MinerFirmware ==
    {"Stock", "BraiinsOS", "VNish", "EPic", "HiveOS", "LuxOS", "Marathon", "MSKMiner"}

\* Option::None of an enum value or of a list
None == "None"

RECURSIVE SeqToSet(_)
SeqToSet(s) == IF s = <<>> THEN {} ELSE {Head(s)} \cup SeqToSet(Tail(s))

(***************************************************************************)
(* miners::commands - MinerCommand (derive PartialEq, Eq, Hash)            *)
(***************************************************************************)
MinerCommand(variant, command, parameters) ==
    [variant |-> variant, command |-> command, parameters |-> parameters]

\* the derived structural equality: same variant and every field equal
\* variant: an equality that looks at the variant and the command string only
MinerCommandEq_IgnoresParameters(a, b) ==
    /\ a.variant = b.variant
    /\ a.command = b.command

\* #[derive(PartialEq, Eq, Hash)] on MinerCommand: structural equality
MinerCommandEq(a, b) ==
    /\ a.variant = b.variant
    /\ a.command = b.command
    /\ a.parameters = b.parameters

\* variant: a plain Vec::push, no equality test
HashSetInsert_NoDedup(set, c) == Append(set, c)

\* HashSet<MinerCommand>::insert.  The set is kept as the list of its
\* elements (the order in which it is later iterated): an element equal to a
\* stored one is not stored again.
HashSetInsert(set, c) ==
    IF \E i \in 1..Len(set) : MinerCommandEq(set[i], c) THEN set ELSE Append(set, c)

RECURSIVE HashSetFromSeq(_, _)
HashSetFromSeq(set, s) ==
    IF s = <<>> THEN set ELSE HashSetFromSeq(HashSetInsert(set, Head(s)), Tail(s))

\* how many elements of a list are the command c
Occurrences(list, c) == Cardinality({i \in 1..Len(list) : list[i] = c})

(***************************************************************************)
(* miners::factory::commands - the discovery probes                        *)
(***************************************************************************)
RPC_VERSION == MinerCommand("RPC", "version", None)

RPC_DEVDETAILS == MinerCommand("RPC", "devdetails", None)

HTTP_WEB_ROOT == MinerCommand("WebAPI", "/", None)

(***************************************************************************)
(* miners::factory::traits - DiscoveryCommands                             *)
(***************************************************************************)
MakeDiscoveryCommands(make) ==
    CASE make = "AntMiner"    -> <<RPC_VERSION, HTTP_WEB_ROOT>>
      [] make = "WhatsMiner"  -> <<RPC_DEVDETAILS, HTTP_WEB_ROOT>>
      [] make = "AvalonMiner" -> <<RPC_VERSION, HTTP_WEB_ROOT>>
      [] make = "EPic"        -> <<HTTP_WEB_ROOT>>
      [] make = "Braiins"     -> <<RPC_VERSION, HTTP_WEB_ROOT>>
      [] make = "BitAxe"      -> <<HTTP_WEB_ROOT>>

FirmwareDiscoveryCommands(firmware) ==
    CASE firmware = "Stock"     -> <<>>
      [] firmware = "BraiinsOS" -> <<RPC_VERSION, HTTP_WEB_ROOT>>
      [] firmware = "VNish"     -> <<HTTP_WEB_ROOT, RPC_VERSION>>
      [] firmware = "EPic"      -> <<HTTP_WEB_ROOT>>
      [] firmware = "HiveOS"    -> <<>>
      [] firmware = "LuxOS"     -> <<HTTP_WEB_ROOT, RPC_VERSION>>
      [] firmware = "Marathon"  -> <<>>
      [] firmware = "MSKMiner"  -> <<>>

(***************************************************************************)
(* Classification results: Option<(Option<MinerMake>, Option<Firmware>)>   *)
(***************************************************************************)
SomeType(make, firmware) == [kind |-> "Some", make |-> make, firmware |-> firmware]

NoneType == [kind |-> "None", make |-> None, firmware |-> None]

\* a probe task that panicked: JoinSet::join_next yields Err(JoinError)
JoinError == [kind |-> "JoinError", make |-> None, firmware |-> None]

(***************************************************************************)
(* Probe responses.  A socket response is the set of fingerprint tokens    *)
(* its serialized JSON contains, in the letter case the device sent them.  *)
(***************************************************************************)
SocketMarkers ==
    {"BOSMINER", "BOSER", "LUXMINER", "BITMICRO", "BTMINER", "ANTMINER",
     "DEVDETAILS", "AVALON", "VNISH"}

LowerOf(marker) ==
    CASE marker = "BOSMINER"   -> "bosminer"
      [] marker = "BOSER"      -> "boser"
      [] marker = "LUXMINER"   -> "luxminer"
      [] marker = "BITMICRO"   -> "bitmicro"
      [] marker = "BTMINER"    -> "btminer"
      [] marker = "ANTMINER"   -> "Antminer"
      [] marker = "DEVDETAILS" -> "devdetails"
      [] marker = "AVALON"     -> "Avalon"
      [] marker = "VNISH"      -> "vnish"

SocketTokens == SocketMarkers \cup {LowerOf(m) : m \in SocketMarkers}

\* variant: the payload is searched as it was received
ToUppercase_AsReceived(token) == token

\* str::to_uppercase on one token
ToUppercase(token) ==
    IF token \in SocketMarkers THEN token
    ELSE CHOOSE m \in SocketMarkers : LowerOf(m) = token

BoundedSubsets(S, n) == {T \in SUBSET S : Cardinality(T) <= n}

SocketResponses == BoundedSubsets(SocketTokens, MaxTokens)

WebTokens ==
    {"Braiins OS", "Luxor Firmware", "AxeOS", "Miner Web Dashboard", "Avalon",
     "AnthillOS", "/cgi-bin/luci"}

\* header values: absent, the antMiner realm / an https redirect, another
\* value, or bytes that HeaderValue::to_str rejects
AuthHeaders == {None, "Digest realm=\"antMiner Configuration\"", "Basic realm=\"other\"", "opaque-bytes"}

LocationHeaders == {None, "https://host/", "http://host/login", "opaque-bytes"}

StatusCodes == {200, 307, 401}

WebResponses ==
    [text : BoundedSubsets(WebTokens, MaxTokens), www_authenticate : AuthHeaders,
     location : LocationHeaders, status : StatusCodes]

\* util::send_rpc_command / send_web_command: Option of the response, None on
\* any transport failure (connection refused, timeout, unparsable payload)
NoResponse == [ok |-> FALSE]

Response(body) == [ok |-> TRUE, body |-> body]

(***************************************************************************)
(* miners::factory - fingerprinting                                        *)
(***************************************************************************)
\* variant: the WhatsMiner arm is declared before the Braiins arm
parse_type_from_socket_WhatsMinerFirst(response) ==
    LET json_string == {ToUppercase(t) : t \in response}
        contains(m) == m \in json_string
    IN  CASE contains("BITMICRO") \/ contains("BTMINER") -> SomeType("WhatsMiner", "Stock")
          [] OTHER ->
        CASE contains("BOSMINER") \/ contains("BOSER") -> SomeType(None, "BraiinsOS")
          [] OTHER ->
        CASE contains("LUXMINER") -> SomeType(None, "LuxOS")
          [] OTHER ->
        CASE contains("ANTMINER") /\ ~contains("DEVDETAILS") -> SomeType("AntMiner", "Stock")
          [] OTHER ->
        CASE contains("AVALON") -> SomeType("AvalonMiner", "Stock")
          [] OTHER ->
        CASE contains("VNISH") -> SomeType(None, "VNish")
          [] OTHER -> NoneType

parse_type_from_socket(response) ==
    LET json_string == {ToUppercase(t) : t \in response}
        contains(m) == m \in json_string
    IN  CASE contains("BOSMINER") \/ contains("BOSER") -> SomeType(None, "BraiinsOS")
          [] OTHER ->
        CASE contains("LUXMINER") -> SomeType(None, "LuxOS")
          [] OTHER ->
        CASE contains("BITMICRO") \/ contains("BTMINER") -> SomeType("WhatsMiner", "Stock")
          [] OTHER ->
        CASE contains("ANTMINER") /\ ~contains("DEVDETAILS") -> SomeType("AntMiner", "Stock")
          [] OTHER ->
        CASE contains("AVALON") -> SomeType("AvalonMiner", "Stock")
          [] OTHER ->
        CASE contains("VNISH") -> SomeType(None, "VNish")
          [] OTHER -> NoneType

\* HeaderValue::to_str().unwrap() panics on a value that is not visible ASCII
HeaderPanics(response) ==
    \/ response.www_authenticate = "opaque-bytes"
    \/ response.location = "opaque-bytes"

\* variant: an https redirect counts whatever the status is
parse_type_from_web_AnyStatus(response) ==
    LET resp_text == response.text
        resp_status == response.status
        auth_antminer == response.www_authenticate = "Digest realm=\"antMiner Configuration\""
        redirect_https == response.location = "https://host/"
    IN  IF HeaderPanics(response) THEN JoinError ELSE
        CASE resp_status = 401 /\ auth_antminer -> SomeType("AntMiner", "Stock")
          [] OTHER ->
        CASE "Braiins OS" \in resp_text -> SomeType(None, "BraiinsOS")
          [] OTHER ->
        CASE "Luxor Firmware" \in resp_text -> SomeType(None, "LuxOS")
          [] OTHER ->
        CASE "AxeOS" \in resp_text -> SomeType("BitAxe", "Stock")
          [] OTHER ->
        CASE "Miner Web Dashboard" \in resp_text -> SomeType(None, "EPic")
          [] OTHER ->
        CASE "Avalon" \in resp_text -> SomeType("AvalonMiner", "Stock")
          [] OTHER ->
        CASE "AnthillOS" \in resp_text -> SomeType(None, "VNish")
          [] OTHER ->
        CASE redirect_https \/ "/cgi-bin/luci" \in resp_text
               -> SomeType("WhatsMiner", "Stock")
          [] OTHER -> NoneType

parse_type_from_web(response) ==
    LET resp_text == response.text
        resp_status == response.status
        auth_antminer == response.www_authenticate = "Digest realm=\"antMiner Configuration\""
        redirect_https == response.location = "https://host/"
    IN  IF HeaderPanics(response) THEN JoinError ELSE
        CASE resp_status = 401 /\ auth_antminer -> SomeType("AntMiner", "Stock")
          [] OTHER ->
        CASE "Braiins OS" \in resp_text -> SomeType(None, "BraiinsOS")
          [] OTHER ->
        CASE "Luxor Firmware" \in resp_text -> SomeType(None, "LuxOS")
          [] OTHER ->
        CASE "AxeOS" \in resp_text -> SomeType("BitAxe", "Stock")
          [] OTHER ->
        CASE "Miner Web Dashboard" \in resp_text -> SomeType(None, "EPic")
          [] OTHER ->
        CASE "Avalon" \in resp_text -> SomeType("AvalonMiner", "Stock")
          [] OTHER ->
        CASE "AnthillOS" \in resp_text -> SomeType(None, "VNish")
          [] OTHER ->
        CASE (redirect_https /\ resp_status = 307) \/ "/cgi-bin/luci" \in resp_text
               -> SomeType("WhatsMiner", "Stock")
          [] OTHER -> NoneType

\* what the transport of this protocol variant can hand back to a probe
ProbeResponses(command) ==
    {NoResponse} \cup
    CASE command.variant = "RPC"    -> {Response(r) : r \in SocketResponses}
      [] command.variant = "WebAPI" -> {Response(r) : r \in WebResponses}
      [] OTHER                      -> {}

\* `send_..._command(..).await?` returns None early when there is no response
get_miner_type_from_command(command, response) ==
    CASE command.variant = "RPC" ->
            IF ~response.ok THEN NoneType ELSE parse_type_from_socket(response.body)
      [] command.variant = "WebAPI" ->
            IF ~response.ok THEN NoneType ELSE parse_type_from_web(response.body)
      [] OTHER -> NoneType

\* every output a probe task can finish with, per protocol variant
RpcProbeOutputs ==
    {get_miner_type_from_command(RPC_VERSION, r) : r \in ProbeResponses(RPC_VERSION)}

WebProbeOutputs ==
    {get_miner_type_from_command(HTTP_WEB_ROOT, r) : r \in ProbeResponses(HTTP_WEB_ROOT)}

ProbeOutputs(command) ==
    CASE command.variant = "RPC"    -> RpcProbeOutputs
      [] command.variant = "WebAPI" -> WebProbeOutputs
      [] OTHER                      -> {NoneType}

(***************************************************************************)
(* semver::Version as <<major, minor, patch>>; Option<Version>, Option of  *)
(* a model, and the outcome of an operation that may panic.                *)
(***************************************************************************)
VersionGE(a, b) ==
    \/ a[1] > b[1]
    \/ a[1] = b[1] /\ a[2] > b[2]
    \/ a[1] = b[1] /\ a[2] = b[2] /\ a[3] >= b[3]

VersionLT(a, b) == ~VersionGE(a, b)

NoVersion == [some |-> FALSE, v |-> <<0, 0, 0>>]

SomeVersion(v) == [some |-> TRUE, v |-> v]

NoModel == [some |-> FALSE, family |-> None]

SomeModel(family) == [some |-> TRUE, family |-> family]

\* a value of type Option<Box<dyn GetMinerData>>, or the panic that replaced it
NoBackend == [kind |-> "None", backend |-> None]

SomeBackend(name) == [kind |-> "Some", backend |-> name]

Panic == [kind |-> "Panic", backend |-> None]

(***************************************************************************)
(* miners::factory::model - resolvers.  A resolver response is what the    *)
(* follow-up call met: no response, a payload without the expected shape,  *)
(* or a payload that carries a model string / a version.                   *)
(***************************************************************************)
ModelResponses ==
    {[kind |-> "NoResponse", family |-> None], [kind |-> "Unexpected", family |-> None],
     [kind |-> "UnknownModel", family |-> None]} \cup
    {[kind |-> "Model", family |-> f] : f \in {"AntMiner", "WhatsMiner", "BitAxe", "Braiins"}}

\* the model families MinerModelFactory::parse_model tries for this identity
ParsedFamilies(make, firmware) ==
    CASE make = "AntMiner"       -> {"AntMiner"}
      [] make = "WhatsMiner"     -> {"WhatsMiner"}
      [] make = "BitAxe"         -> {"BitAxe"}
      [] make = "AvalonMiner"    -> {"AvalonMiner"}
      [] make = None /\ firmware = "BraiinsOS" -> {"AntMiner", "Braiins"}
      [] make = None /\ firmware = "LuxOS"     -> {"AntMiner"}
      [] OTHER                   -> {}

\* get_model_antminer / _whatsminer / _bitaxe / _luxos / _braiins_os: the
\* model only when a response came, had the shape and parse_model knows it
resolve_model(make, firmware, response) ==
    IF response.kind = "Model" /\ response.family \in ParsedFamilies(make, firmware)
    THEN SomeModel(response.family)
    ELSE NoModel

\* ModelSelection for MinerMake
make_get_model(make, response) ==
    IF make \in {"AntMiner", "WhatsMiner", "BitAxe"}
    THEN resolve_model(make, None, response)
    ELSE NoModel

\* ModelSelection for MinerFirmware
firmware_get_model(firmware, response) ==
    IF firmware \in {"LuxOS", "BraiinsOS"}
    THEN resolve_model(None, firmware, response)
    ELSE NoModel

WhatsMinerVersions == {<<2024, 10, 31>>, <<2024, 11, 0>>, <<2025, 1, 15>>}

BitAxeVersions == {<<1, 9, 9>>, <<2, 0, 0>>, <<2, 8, 9>>, <<2, 9, 0>>}

\* what the version follow-up call of an identity can meet
VersionResponses(make) ==
    {[kind |-> k, v |-> <<0, 0, 0>>] : k \in {"NoResponse", "Malformed"}} \cup
    {[kind |-> "Version", v |-> v] :
        v \in CASE make = "WhatsMiner" -> WhatsMinerVersions
               [] make = "BitAxe"     -> BitAxeVersions
               [] OTHER               -> {}}

\* the outcome of a version resolver: Option<Version>, or a panic
VersionOutcome(panicked, version) == [panicked |-> panicked, version |-> version]

get_version_whatsminer(response) ==
    IF response.kind = "Version"
    THEN VersionOutcome(FALSE, SomeVersion(response.v))
    ELSE VersionOutcome(FALSE, NoVersion)

\* send_web_command(..).await.unwrap(): no response panics
get_version_bitaxe(response) ==
    CASE response.kind = "NoResponse" -> VersionOutcome(TRUE, NoVersion)
      [] response.kind = "Version"    -> VersionOutcome(FALSE, SomeVersion(response.v))
      [] OTHER                        -> VersionOutcome(FALSE, NoVersion)

\* VersionSelection for MinerMake
make_get_version(make, response) ==
    CASE make = "BitAxe"     -> get_version_bitaxe(response)
      [] make = "WhatsMiner" -> get_version_whatsminer(response)
      [] OTHER               -> VersionOutcome(FALSE, NoVersion)

\* VersionSelection for MinerFirmware
firmware_get_version(firmware, response) == VersionOutcome(FALSE, NoVersion)

(***************************************************************************)
(* miners::backends - version-gated constructors, miners::factory -        *)
(* select_backend                                                          *)
(***************************************************************************)
BTMiner_new(model, firmware, version) ==
    IF VersionGE(version, <<2024, 11, 0>>)
    THEN SomeBackend("BTMiner3")
    ELSE Panic

ESPMiner_new(model, firmware, version) ==
    IF VersionGE(version, <<2, 0, 0>>) /\ VersionLT(version, <<2, 9, 0>>)
    THEN SomeBackend("ESPMiner200")
    ELSE IF VersionGE(version, <<2, 9, 0>>)
         THEN SomeBackend("ESPMiner290")
         ELSE Panic

\* `model?`, `firmware?`, `version?` return None before the constructor runs
select_backend(make, model, firmware, version) ==
    CASE make = "WhatsMiner" /\ firmware = "Stock" ->
            IF ~model.some \/ firmware = None \/ ~version.some
            THEN NoBackend
            ELSE BTMiner_new(model.family, firmware, version.v)
      [] make = "BitAxe" /\ firmware = "Stock" ->
            IF ~model.some \/ firmware = None \/ ~version.some
            THEN NoBackend
            ELSE ESPMiner_new(model.family, firmware, version.v)
      [] OTHER -> NoBackend

(***************************************************************************)
(* MinerFactory                                                            *)
(***************************************************************************)
VARIABLES
    search_makes,       \* Option<Vec<MinerMake>>
    search_firmwares,   \* Option<Vec<MinerFirmware>>
    discovery_timeout,  \* Duration, in clock ticks
    gm_pc,              \* where the get_miner call stands
    commands,           \* the probe Commands, task i of the JoinSet runs commands[i]
    notified,           \* finished probe tasks the JoinSet holds, in completion order
    joined,             \* the outputs join_next has handed to the race loop, in order
    race,               \* the spawned race loop: running, or finished with its output
    clock,              \* ticks since tokio::time::sleep was created
    miner_info,         \* what select! produced
    model,              \* Option<MinerModel> from the model resolver
    version,            \* Option<Version> from the version resolver
    ret                 \* what get_miner returned

VARIABLES
    ips,                \* Vec<IpAddr>, an address is <<o1, o2, o3, o4>>
    max_concurrent,     \* usize, 0 = not set
    build_err,          \* a builder method returned Err and the factory is gone
    build_call,         \* the last address builder called, with its argument
    scan_pc,            \* where the scan / scan_stream call stands
    scan_mode,          \* "scan" or "scan_stream"
    concurrent_limit,   \* the argument of buffer_unordered
    next_ip,            \* position of the address iterator
    in_flight,          \* positions whose get_miner future is in the buffer
    outcomes,           \* position -> what get_miner returned for that address
    found,              \* the devices that passed filter_map, in completion order
    scan_ret            \* what scan returned

VARIABLES
    col_pc,             \* where the collection pass stands
    col_backend,        \* the backend whose location map is collected
    col_fields,         \* the Fields asked for
    failing,            \* the Commands whose transport fails, always
    required,           \* the distinct Commands of the pass, as a list
    pending,            \* positions of `required` not dispatched yet
    dispatch_count,     \* Command -> number of times a transport was asked to run it
    cache,              \* the Commands that have a raw response
    output              \* Field -> the tagged values extracted for it

VARIABLES
    call,               \* the function under test and its argument
    result,             \* what it returned
    again,              \* what it returned when applied to the same argument again
    applications        \* how often it has been applied to this argument

VARIABLES
    session_api,        \* the Braiins session transport built: "luci" or "graphql"
    session_id,         \* RwLock<Option<String>>: the stored session id
    logins,             \* authenticate requests sent to the device so far
    issued,             \* session ids the device has handed out so far
    cmd_pc,             \* command -> where its send_..._command call stands
    cmd_privileged,     \* command -> whether it calls ensure_authenticated
    cmd_late,           \* command -> a session id was stored when it started
    cmd_session,        \* command -> the `session` its authenticate returned
    sent_with,          \* command -> the session id of its Cookie header
    cmd_result          \* command -> what its call returned

VARIABLES
    retry_pc,           \* where the ESPMiner send_command call stands
    retries,            \* the `retries` field of the client
    attempt,            \* the loop variable of `for attempt in 0..=self.retries`
    attempts,           \* what each execute_request so far met, in order
    retry_ret           \* what send_command returned

unitVars == <<call, result, again, applications>>

sessionVars ==
    <<session_api, session_id, logins, issued, cmd_pc, cmd_privileged, cmd_late,
      cmd_session, sent_with, cmd_result>>

retryVars == <<retry_pc, retries, attempt, attempts, retry_ret>>

transportVars == <<sessionVars, retryVars>>

\* most commands issued on one session transport
MaxCommands == 2

\* most retries a client is configured with
MaxRetries == 3

Commands == 1..MaxCommands

\* Option<String> of a session id: the device numbers its sessions from 1
NoSession == 0

\* the request of a command has not been built
NotSent == -1

collectVars ==
    <<col_pc, col_backend, col_fields, failing, required, pending, dispatch_count, cache,
      output>>

scanVars ==
    <<ips, max_concurrent, build_err, build_call, scan_pc, scan_mode, concurrent_limit,
      next_ip, in_flight, outcomes, found, scan_ret>>

gmVars ==
    <<search_makes, search_firmwares, discovery_timeout, gm_pc, commands, notified,
      joined, race, clock, miner_info, model, version, ret>>

NoList == [some |-> FALSE, list |-> <<>>]

SomeList(list) == [some |-> TRUE, list |-> list]

DefaultSearchMakes ==
    <<"AntMiner", "WhatsMiner", "AvalonMiner", "EPic", "Braiins", "BitAxe">>

DefaultSearchFirmwares ==
    <<"Stock", "BraiinsOS", "VNish", "EPic", "HiveOS", "LuxOS", "Marathon", "MSKMiner">>

\* the lists the builder methods are called with
SearchMakeInputs == {<<>>, <<"WhatsMiner">>, <<"BitAxe">>, <<"AntMiner", "Braiins">>}

SearchFirmwareInputs == {<<>>, <<"Stock", "VNish">>}

RECURSIVE MakeCommandList(_)
MakeCommandList(makes) ==
    IF makes = <<>> THEN <<>>
    ELSE MakeDiscoveryCommands(Head(makes)) \o MakeCommandList(Tail(makes))

RECURSIVE FirmwareCommandList(_)
FirmwareCommandList(firmwares) ==
    IF firmwares = <<>> THEN <<>>
    ELSE FirmwareDiscoveryCommands(Head(firmwares)) \o FirmwareCommandList(Tail(firmwares))

\* get_miner, the two nested loops that fill `commands`
GatherCommands(makes, firmwares) ==
    LET searched_makes == IF makes.some THEN makes.list ELSE DefaultSearchMakes
        searched_firmwares == IF firmwares.some THEN firmwares.list ELSE DefaultSearchFirmwares
    IN  HashSetFromSeq(HashSetFromSeq(<<>>, MakeCommandList(searched_makes)),
                       FirmwareCommandList(searched_firmwares))

Running == [state |-> "running", out |-> NoneType]

Finished(out) == [state |-> "finished", out |-> out]

Pending == [kind |-> "Pending", backend |-> None]

NoInfo == [kind |-> "Pending", make |-> None, firmware |-> None]

\* MinerFactory::new
\* no call yet
NoCall == [fn |-> None, arg |-> <<>>]

InitFactory ==
    /\ ips = <<>>
    /\ max_concurrent = 0
    /\ build_err = FALSE
    /\ build_call = NoCall
    /\ outcomes = <<>>
    /\ call = NoCall
    /\ result = None
    /\ again = None
    /\ applications = 0
    /\ session_api = None
    /\ session_id = NoSession
    /\ logins = 0
    /\ issued = 0
    /\ cmd_pc = [i \in Commands |-> "idle"]
    /\ cmd_privileged = [i \in Commands |-> FALSE]
    /\ cmd_late = [i \in Commands |-> FALSE]
    /\ cmd_session = [i \in Commands |-> NoSession]
    /\ sent_with = [i \in Commands |-> NotSent]
    /\ cmd_result = [i \in Commands |-> None]
    /\ retry_pc = "idle"
    /\ retries = 1
    /\ attempt = 0
    /\ attempts = <<>>
    /\ retry_ret = None
    /\ scan_pc = "idle"
    /\ scan_mode = None
    /\ concurrent_limit = 0
    /\ next_ip = 1
    /\ in_flight = {}
    /\ found = <<>>
    /\ scan_ret = [status |-> "Pending", miners |-> <<>>]
    /\ col_pc = "idle"
    /\ col_backend = None
    /\ col_fields = {}
    /\ failing = {}
    /\ required = <<>>
    /\ pending = {}
    /\ dispatch_count = <<>>
    /\ cache = {}
    /\ output = <<>>
    /\ search_makes = NoList
    /\ search_firmwares = NoList
    /\ discovery_timeout = MaxTimeout
    /\ gm_pc = "idle"
    /\ commands = <<>>
    /\ notified = <<>>
    /\ joined = <<>>
    /\ race = Running
    /\ clock = 0
    /\ miner_info = NoInfo
    /\ model = NoModel
    /\ version = NoVersion
    /\ ret = Pending

callVars == <<gm_pc, commands, notified, joined, race, clock, miner_info, model, version, ret>>

with_search_makes(makes) ==
    /\ gm_pc = "idle"
    /\ search_makes' = SomeList(makes)
    /\ UNCHANGED <<search_firmwares, discovery_timeout, callVars, scanVars, collectVars, unitVars, transportVars>>

with_search_firmwares(firmwares) ==
    /\ gm_pc = "idle"
    /\ search_firmwares' = SomeList(firmwares)
    /\ UNCHANGED <<search_makes, discovery_timeout, callVars, scanVars, collectVars, unitVars, transportVars>>

with_timeout_secs(timeout_secs) ==
    /\ gm_pc = "idle"
    /\ discovery_timeout' = timeout_secs
    /\ UNCHANGED <<search_makes, search_firmwares, callVars, scanVars, collectVars, unitVars, transportVars>>

(***************************************************************************)
(* MinerFactory::get_miner                                                 *)
(***************************************************************************)
factoryVars ==
    <<search_makes, search_firmwares, discovery_timeout, scanVars, collectVars, unitVars, transportVars>>

\* the probe tasks in the order in which they finished
CompletionLog == joined \o notified

\* the tasks of the JoinSet that have not finished
Outstanding ==
    {i \in 1..Len(commands) : \A k \in 1..Len(CompletionLog) : CompletionLog[k].task # i}

\* everything up to the select!: gather the Commands, spawn one probe task
\* per element of the set, create the sleep, spawn the race loop
GetMinerCall ==
    /\ gm_pc = "idle"
    /\ commands' = GatherCommands(search_makes, search_firmwares)
    /\ gm_pc' = "select"
    /\ UNCHANGED <<factoryVars, notified, joined, race, clock, miner_info, model, version, ret>>

\* a probe task runs get_miner_type_from_command to its end (or panics in
\* it); the tasks of a dropped JoinSet are aborted and finish no more
ProbeComplete(i) ==
    /\ gm_pc # "idle"
    /\ race.state = "running"
    /\ i \in Outstanding
    /\ \E out \in ProbeOutputs(commands[i]) :
          notified' = Append(notified, [task |-> i, out |-> out])
    /\ UNCHANGED <<factoryVars, gm_pc, commands, joined, race, clock, miner_info, model,
                   version, ret>>

\* race loop: `if discovery_tasks.is_empty() { return None }`
RaceEmpty ==
    /\ gm_pc # "idle"
    /\ race.state = "running"
    /\ Len(joined) = Len(commands)
    /\ race' = Finished(NoneType)
    /\ UNCHANGED <<factoryVars, gm_pc, commands, notified, joined, clock, miner_info,
                   model, version, ret>>

\* variant: the loop returns the output of the first task to finish at all
RaceJoinNext_FirstCompleted ==
    /\ gm_pc # "idle"
    /\ race.state = "running"
    /\ notified # <<>>
    /\ joined' = Append(joined, Head(notified))
    /\ race' = Finished(IF Head(notified).out.kind = "Some"
                        THEN Head(notified).out ELSE NoneType)
    /\ notified' = <<>>
    /\ UNCHANGED <<factoryVars, gm_pc, commands, clock, miner_info, model, version, ret>>

\* variant: join_next hands over the task that finished last
RaceJoinNext_Newest ==
    /\ gm_pc # "idle"
    /\ race.state = "running"
    /\ notified # <<>>
    /\ joined' = Append(joined, notified[Len(notified)])
    /\ IF notified[Len(notified)].out.kind = "Some"
       THEN race' = Finished(notified[Len(notified)].out) /\ notified' = <<>>
       ELSE race' = race /\ notified' = SubSeq(notified, 1, Len(notified) - 1)
    /\ UNCHANGED <<factoryVars, gm_pc, commands, clock, miner_info, model, version, ret>>

\* race loop: join_next hands over the task that finished first among those
\* it still holds; Ok(Some(result)) ends the loop, which drops the JoinSet
\* with whatever it holds, anything else continues
RaceJoinNext ==
    /\ gm_pc # "idle"
    /\ race.state = "running"
    /\ notified # <<>>
    /\ joined' = Append(joined, Head(notified))
    /\ IF Head(notified).out.kind = "Some"
       THEN race' = Finished(Head(notified).out) /\ notified' = <<>>
       ELSE race' = race /\ notified' = Tail(notified)
    /\ UNCHANGED <<factoryVars, gm_pc, commands, clock, miner_info, model, version, ret>>

\* time passes on the sleep future
Tick ==
    /\ gm_pc = "select"
    /\ clock < discovery_timeout
    /\ clock' = clock + 1
    /\ UNCHANGED <<factoryVars, gm_pc, commands, notified, joined, race, miner_info,
                   model, version, ret>>

\* `match miner_info` when no resolver is called: None, or Some((None, None))
ReturnsAtOnce(info) == info.kind # "Some" \/ (info.make = None /\ info.firmware = None)

\* variant: the race output is unwrapped instead of matched
SelectTasks_Unwrap ==
    /\ gm_pc = "select"
    /\ race.state = "finished"
    /\ miner_info' = race.out
    /\ IF race.out.kind # "Some"
       THEN gm_pc' = "panicked" /\ ret' = Panic
       ELSE gm_pc' = "model" /\ ret' = ret
    /\ UNCHANGED <<factoryVars, commands, notified, joined, race, clock, model, version>>

\* variant: the resolvers are called whatever the race produced
SelectTasks_ResolvesAnyway ==
    /\ gm_pc = "select"
    /\ race.state = "finished"
    /\ miner_info' = race.out
    /\ gm_pc' = "model" /\ ret' = ret
    /\ UNCHANGED <<factoryVars, commands, notified, joined, race, clock, model, version>>

\* select! takes the branch `Ok(miner_info) = &mut tasks`
SelectTasks ==
    /\ gm_pc = "select"
    /\ race.state = "finished"
    /\ miner_info' = race.out
    /\ IF ReturnsAtOnce(race.out)
       THEN gm_pc' = "done" /\ ret' = NoBackend
       ELSE gm_pc' = "model" /\ ret' = ret
    /\ UNCHANGED <<factoryVars, commands, notified, joined, race, clock, model, version>>

\* variant: the timeout branch goes on to await the race loop
SelectTimeout_AwaitsRace ==
    /\ gm_pc = "select"
    /\ clock = discovery_timeout
    /\ race.state = "finished"
    /\ miner_info' = NoneType
    /\ gm_pc' = "done"
    /\ ret' = NoBackend
    /\ UNCHANGED <<factoryVars, commands, notified, joined, race, clock, model, version>>

\* variant: the timeout branch records None and select! is entered again
SelectTimeout_SelectsAgain ==
    /\ gm_pc = "select"
    /\ clock = discovery_timeout
    /\ miner_info = NoInfo
    /\ miner_info' = NoneType
    /\ UNCHANGED <<factoryVars, gm_pc, ret, commands, notified, joined, race, clock, model,
                   version>>

\* select! takes the branch `_ = &mut timeout`: miner_info is None and
\* get_miner returns Ok(None); the race loop is detached, not cancelled
SelectTimeout ==
    /\ gm_pc = "select"
    /\ clock = discovery_timeout
    /\ miner_info' = NoneType
    /\ gm_pc' = "done"
    /\ ret' = NoBackend
    /\ UNCHANGED <<factoryVars, commands, notified, joined, race, clock, model, version>>

\* the arms of parse_model that are `unreachable!()`: make Braiins or EPic,
\* and no make with firmware Stock or with no firmware
ParseModelUnreachable(make, firmware) ==
    \/ make \in {"Braiins", "EPic"}
    \/ make = None /\ firmware \in {"Stock", None}

NoResolver == [called |-> FALSE, make |-> None, firmware |-> None]

\* variant: get_model goes by the firmware whenever there is one
ModelResolverFactory_FirmwareFirst(info) ==
    IF info.firmware # None
    THEN [called |-> TRUE, make |-> None, firmware |-> info.firmware]
    ELSE [called |-> TRUE, make |-> info.make, firmware |-> None]

\* the make or firmware the resolver that get_model dispatches to sets on
\* its MinerModelFactory: by make if there is one, else by firmware; the
\* arms `_ => None` call no resolver
ModelResolverFactory(info) ==
    IF info.make # None
    THEN IF info.make \in {"AntMiner", "WhatsMiner", "BitAxe"}
         THEN [called |-> TRUE, make |-> info.make, firmware |-> None]
         ELSE NoResolver
    ELSE IF info.firmware \in {"LuxOS", "BraiinsOS"}
         THEN [called |-> TRUE, make |-> None, firmware |-> info.firmware]
         ELSE NoResolver

\* `let model = ...get_model(ip).await`; a resolver that got a model string
\* calls parse_model, whose unreachable!() arms panic
ResolveModel ==
    /\ gm_pc = "model"
    /\ \E response \in ModelResponses :
          LET factory == ModelResolverFactory(miner_info)
          IN  IF /\ factory.called
                 /\ response.kind \in {"Model", "UnknownModel"}
                 /\ ParseModelUnreachable(factory.make, factory.firmware)
              THEN /\ gm_pc' = "panicked"
                   /\ ret' = Panic
                   /\ UNCHANGED model
              ELSE /\ model' = IF miner_info.make # None
                               THEN make_get_model(miner_info.make, response)
                               ELSE firmware_get_model(miner_info.firmware, response)
                   /\ gm_pc' = "version"
                   /\ UNCHANGED ret
    /\ UNCHANGED <<factoryVars, commands, notified, joined, race, clock, miner_info,
                   version>>

\* `let version = ...get_version(ip).await`, then select_backend and return;
\* a panic of the resolver or of the constructor unwinds out of get_miner
ResolveVersion ==
    /\ gm_pc = "version"
    /\ \E response \in VersionResponses(miner_info.make) :
          LET outcome == IF miner_info.make # None
                         THEN make_get_version(miner_info.make, response)
                         ELSE firmware_get_version(miner_info.firmware, response)
              backend == IF outcome.panicked THEN Panic
                         ELSE select_backend(miner_info.make, model, miner_info.firmware,
                                             outcome.version)
          IN  /\ version' = outcome.version
              /\ ret' = backend
              /\ gm_pc' = IF backend.kind = "Panic" THEN "panicked" ELSE "done"
    /\ UNCHANGED <<factoryVars, commands, notified, joined, race, clock, miner_info, model>>

\* what get_miner returns for one classification and one pair of resolver
\* responses (the `match miner_info` of get_miner as a function)
get_miner_result(info, model_response, version_response) ==
    IF ReturnsAtOnce(info) THEN NoBackend
    ELSE LET resolved_model == IF info.make # None
                               THEN make_get_model(info.make, model_response)
                               ELSE firmware_get_model(info.firmware, model_response)
             outcome == IF info.make # None
                        THEN make_get_version(info.make, version_response)
                        ELSE firmware_get_version(info.firmware, version_response)
         IN  IF outcome.panicked THEN Panic
             ELSE select_backend(info.make, resolved_model, info.firmware, outcome.version)

\* every value select! can produce
Classifications == RpcProbeOutputs \cup WebProbeOutputs \cup {NoneType}

\* every way a get_miner call can end
GetMinerResults ==
    UNION {{get_miner_result(info, model_response, version_response) :
                model_response \in ModelResponses,
                version_response \in VersionResponses(info.make)} :
           info \in {c \in Classifications : c.kind # "JoinError"}}

GetMinerNext ==
    \/ \E makes \in SearchMakeInputs : with_search_makes(makes)
    \/ \E firmwares \in SearchFirmwareInputs : with_search_firmwares(firmwares)
    \/ \E timeout_secs \in 1..MaxTimeout : with_timeout_secs(timeout_secs)
    \/ GetMinerCall
    \/ \E i \in 1..Len(commands) : ProbeComplete(i)
    \/ RaceEmpty
    \/ RaceJoinNext
    \/ Tick
    \/ SelectTasks
    \/ SelectTimeout
    \/ ResolveModel
    \/ ResolveVersion

vars == <<gmVars, scanVars, collectVars, unitVars, transportVars>>

Spec == InitFactory /\ [][GetMinerNext]_vars

(***************************************************************************)
(* MinerFactory - add_search_* and remove_search_*                         *)
(***************************************************************************)
\* longest search list the caller builds
MaxSearch == 2

\* the makes and firmwares the caller adds and removes
SearchMakeChoices == {"AntMiner", "WhatsMiner", "BitAxe"}

SearchFirmwareChoices == {"Stock", "VNish"}

searchFrame ==
    <<discovery_timeout, callVars, scanVars, collectVars, result, again, applications,
      transportVars>>

\* `makes.retain(|val| *val != search_make)`
Retain(list, removed) == SelectSeq(list, LAMBDA val : val # removed)

add_search_make(search_make) ==
    /\ gm_pc = "idle"
    /\ search_makes.some => Len(search_makes.list) < MaxSearch
    /\ search_makes' = IF ~search_makes.some
                       THEN SomeList(<<search_make>>)
                       ELSE SomeList(Append(search_makes.list, search_make))
    /\ call' = [fn |-> "add_search_make", arg |-> search_make]
    /\ UNCHANGED <<search_firmwares, searchFrame>>

add_search_firmware(search_firmware) ==
    /\ gm_pc = "idle"
    /\ search_firmwares.some => Len(search_firmwares.list) < MaxSearch
    /\ search_firmwares' = IF ~search_firmwares.some
                           THEN SomeList(<<search_firmware>>)
                           ELSE SomeList(Append(search_firmwares.list, search_firmware))
    /\ call' = [fn |-> "add_search_firmware", arg |-> search_firmware]
    /\ UNCHANGED <<search_makes, searchFrame>>

\* `if let Some(makes) = self.search_makes.as_mut()`: nothing when None
remove_search_make(search_make) ==
    /\ gm_pc = "idle"
    /\ search_makes' = IF search_makes.some
                       THEN SomeList(Retain(search_makes.list, search_make))
                       ELSE search_makes
    /\ call' = [fn |-> "remove_search_make", arg |-> search_make]
    /\ UNCHANGED <<search_firmwares, searchFrame>>

remove_search_firmware(search_firmware) ==
    /\ gm_pc = "idle"
    /\ search_firmwares' = IF search_firmwares.some
                           THEN SomeList(Retain(search_firmwares.list, search_firmware))
                           ELSE search_firmwares
    /\ call' = [fn |-> "remove_search_firmware", arg |-> search_firmware]
    /\ UNCHANGED <<search_makes, searchFrame>>

\* a factory whose search lists are edited one entry at a time before
\* get_miner gathers its Commands
SearchNext ==
    \/ \E search_make \in SearchMakeChoices : add_search_make(search_make)
    \/ \E search_firmware \in SearchFirmwareChoices : add_search_firmware(search_firmware)
    \/ \E search_make \in SearchMakeChoices : remove_search_make(search_make)
    \/ \E search_firmware \in SearchFirmwareChoices :
          remove_search_firmware(search_firmware)
    \/ GetMinerCall

SearchSpec == InitFactory /\ [][SearchNext]_vars

(***************************************************************************)
(* Address lists                                                           *)
(***************************************************************************)
\* An octet range string is the list of the pieces `split('-')` cuts it
\* into; a piece is the number it spells, or -1 when it spells none.
ParseU8(piece) == [ok |-> piece >= 0 /\ piece <= 255, value |-> piece]

Err == [ok |-> FALSE, list |-> <<>>]

Ok(list) == [ok |-> TRUE, list |-> list]

\* (start..=end).collect()
RangeInclusive(start, end) ==
    IF start > end THEN <<>> ELSE [i \in 1..(end - start + 1) |-> start + i - 1]

\* variant: start and end are not compared
parse_octet_range_Unordered(range_str) ==
    IF Len(range_str) > 1
    THEN IF Len(range_str) # 2 THEN Err
         ELSE LET start == ParseU8(range_str[1])
                  end == ParseU8(range_str[2])
              IN  IF ~start.ok \/ ~end.ok THEN Err
                  ELSE Ok(RangeInclusive(start.value, end.value))
    ELSE LET value == ParseU8(range_str[1])
         IN  IF ~value.ok THEN Err ELSE Ok(<<value.value>>)

parse_octet_range(range_str) ==
    IF Len(range_str) > 1
    THEN IF Len(range_str) # 2 THEN Err
         ELSE LET start == ParseU8(range_str[1])
                  end == ParseU8(range_str[2])
              IN  IF ~start.ok \/ ~end.ok THEN Err
                  ELSE IF start.value > end.value THEN Err
                  ELSE Ok(RangeInclusive(start.value, end.value))
    ELSE LET value == ParseU8(range_str[1])
         IN  IF ~value.ok THEN Err ELSE Ok(<<value.value>>)

RECURSIVE Product2(_, _)
Product2(prefixes, octets) ==
    IF prefixes = <<>> THEN <<>>
    ELSE [i \in 1..Len(octets) |-> Append(Head(prefixes), octets[i])]
         \o Product2(Tail(prefixes), octets)

\* variant: the innermost loop stops before the last value of the range
generate_ips_from_ranges_ShortInner(octet1_range, octet2_range, octet3_range, octet4_range) ==
    Product2(Product2(Product2(Product2(<<<<>>>>, octet1_range), octet2_range),
                      octet3_range), SubSeq(octet4_range, 1, Len(octet4_range) - 1))

\* the four nested loops, outermost octet first
generate_ips_from_ranges(octet1_range, octet2_range, octet3_range, octet4_range) ==
    Product2(Product2(Product2(Product2(<<<<>>>>, octet1_range), octet2_range),
                      octet3_range), octet4_range)

generate_ips_from_octets(octet1, octet2, octet3, octet4) ==
    LET octet1_range == parse_octet_range(octet1)
        octet2_range == parse_octet_range(octet2)
        octet3_range == parse_octet_range(octet3)
        octet4_range == parse_octet_range(octet4)
    IN  IF ~octet1_range.ok \/ ~octet2_range.ok \/ ~octet3_range.ok \/ ~octet4_range.ok
        THEN Err
        ELSE Ok(generate_ips_from_ranges(octet1_range.list, octet2_range.list,
                                         octet3_range.list, octet4_range.list))

\* variant: the upper end of every range is exclusive
calculate_optimal_concurrency_Exclusive(ip_count) ==
    CASE ip_count < 100   -> 25
      [] ip_count >= 100 /\ ip_count < 1000   -> 50
      [] ip_count >= 1000 /\ ip_count < 5000  -> 100
      [] ip_count >= 5000 /\ ip_count < 10000 -> 150
      [] OTHER -> 200

\* variant: 5000 addresses already count as a very large network
calculate_optimal_concurrency_Early(ip_count) ==
    CASE ip_count <= 100   -> 25
      [] ip_count > 100 /\ ip_count <= 1000   -> 50
      [] ip_count > 1000 /\ ip_count < 5000   -> 100
      [] ip_count >= 5000 /\ ip_count <= 10000 -> 150
      [] OTHER -> 200

calculate_optimal_concurrency(ip_count) ==
    CASE ip_count <= 100   -> 25
      [] ip_count > 100 /\ ip_count <= 1000   -> 50
      [] ip_count > 1000 /\ ip_count <= 5000  -> 100
      [] ip_count > 5000 /\ ip_count <= 10000 -> 150
      [] OTHER -> 200

\* explicit limits the caller passes to with_concurrent_limit
MaxConcurrent == 2

\* the octet strings the caller passes: "10", "0", and for the last octet
\* "1", "1-2", "1-3", "3-1", "1-2-3", "300" and "x-2"
FirstOctetInputs == {<<10>>}

MiddleOctetInputs == {<<0>>}

LastOctetInputs == {<<1>>, <<1, 2>>, <<1, 3>>, <<3, 1>>, <<1, 2, 3>>, <<300>>, <<-1, 2>>}

gmFrame == <<gmVars, collectVars, unitVars, transportVars>>

scanCallVars ==
    <<scan_pc, scan_mode, concurrent_limit, next_ip, in_flight, outcomes, found, scan_ret>>

with_concurrent_limit(limit) ==
    /\ scan_pc = "idle" /\ ~build_err
    /\ max_concurrent' = limit
    /\ UNCHANGED <<ips, build_err, build_call, scanCallVars, gmFrame>>

\* the end of with_octets and with_subnet: `?` hands the error to the caller,
\* who has given the factory away; otherwise the list is stored and
\* update_adaptive_concurrency fills max_concurrent when it is still 0
StoreIps(generated) ==
    IF ~generated.ok
    THEN build_err' = TRUE /\ UNCHANGED <<ips, max_concurrent>>
    ELSE /\ ips' = generated.list
         /\ max_concurrent' = IF max_concurrent = 0
                              THEN calculate_optimal_concurrency(Len(generated.list))
                              ELSE max_concurrent
         /\ build_err' = build_err

with_octets(octet1, octet2, octet3, octet4) ==
    /\ scan_pc = "idle" /\ ~build_err
    /\ build_call' = [fn |-> "with_octets", arg |-> <<octet1, octet2, octet3, octet4>>]
    /\ StoreIps(generate_ips_from_octets(octet1, octet2, octet3, octet4))
    /\ UNCHANGED <<scanCallVars, gmFrame>>

\* the range strings the caller passes, as their pieces after split('.'):
\* "10.0.0.1-2", "10.0.1", "10.0.0.1.2" and "10.0.0.2-1"
RangeInputs ==
    {<<<<10>>, <<0>>, <<0>>, <<1, 2>>>>, <<<<10>>, <<0>>, <<1>>>>,
     <<<<10>>, <<0>>, <<0>>, <<1>>, <<2>>>>, <<<<10>>, <<0>>, <<0>>, <<2, 1>>>>}

\* variant: only a string with too few parts is refused
with_range_Lenient(range_str) ==
    /\ scan_pc = "idle" /\ ~build_err
    /\ build_call' = [fn |-> "with_range", arg |-> range_str]
    /\ LET parts == range_str
       IN  IF Len(parts) < 4
           THEN build_err' = TRUE /\ UNCHANGED <<ips, max_concurrent>>
           ELSE StoreIps(generate_ips_from_octets(parts[1], parts[2], parts[3], parts[4]))
    /\ UNCHANGED <<scanCallVars, gmFrame>>

\* with_range: four parts, then with_octets
with_range(range_str) ==
    /\ scan_pc = "idle" /\ ~build_err
    /\ build_call' = [fn |-> "with_range", arg |-> range_str]
    /\ LET parts == range_str
       IN  IF Len(parts) # 4
           THEN build_err' = TRUE /\ UNCHANGED <<ips, max_concurrent>>
           ELSE StoreIps(generate_ips_from_octets(parts[1], parts[2], parts[3], parts[4]))
    /\ UNCHANGED <<scanCallVars, gmFrame>>

\* a subnet string: CIDR notation with its address and prefix length, or
\* text that is not CIDR notation at all
Cidr(addr, prefix) == [syntax |-> "cidr", addr |-> addr, prefix |-> prefix]

NotCidr == [syntax |-> "garbage", addr |-> <<>>, prefix |-> 0]

\* "10.0.0.0/30", "10.0.0.1/32", "10.0.0.9/31", "10.0.0.0/33",
\* "10.0.0.300/30" and "subnet"
SubnetInputs ==
    {Cidr(<<10, 0, 0, 0>>, 30), Cidr(<<10, 0, 0, 1>>, 32), Cidr(<<10, 0, 0, 9>>, 31),
     Cidr(<<10, 0, 0, 0>>, 33), Cidr(<<10, 0, 0, 300>>, 30), NotCidr}

\* IpNet::from_str
IpNet_from_str(subnet) ==
    /\ subnet.syntax = "cidr"
    /\ \A k \in 1..4 : subnet.addr[k] >= 0 /\ subnet.addr[k] <= 255
    /\ subnet.prefix >= 0 /\ subnet.prefix <= 32

RECURSIVE Pow2(_)
Pow2(n) == IF n = 0 THEN 1 ELSE 2 * Pow2(n - 1)

\* IpNet::hosts for a prefix of 24 or longer: every address of a /31 or /32,
\* else all but the network and the broadcast address
hosts(network) ==
    LET size == Pow2(32 - network.prefix)
        base == network.addr[4] - (network.addr[4] % size)
        first == IF network.prefix >= 31 THEN base ELSE base + 1
        last == IF network.prefix >= 31 THEN base + size - 1 ELSE base + size - 2
    IN  [i \in 1..(last - first + 1) |->
            <<network.addr[1], network.addr[2], network.addr[3], first + i - 1>>]

calculate_ips_from_subnet(subnet) ==
    IF IpNet_from_str(subnet) THEN Ok(hosts(subnet)) ELSE Err

with_subnet(subnet) ==
    /\ scan_pc = "idle" /\ ~build_err
    /\ build_call' = [fn |-> "with_subnet", arg |-> subnet]
    /\ StoreIps(calculate_ips_from_subnet(subnet))
    /\ UNCHANGED <<scanCallVars, gmFrame>>

(***************************************************************************)
(* MinerFactory::scan and scan_stream                                      *)
(***************************************************************************)
\* both begin alike: no address is an error, else the limit is computed and
\* the buffered stream is built (scan goes on to drive it, scan_stream hands
\* it to the caller who drives it)
ScanCall(mode) ==
    /\ scan_pc = "idle" /\ ~build_err
    /\ scan_mode' = mode
    /\ IF ips = <<>>
       THEN /\ scan_pc' = "done"
            /\ scan_ret' = [status |-> "Err", miners |-> <<>>]
            /\ UNCHANGED concurrent_limit
       ELSE /\ scan_pc' = "running"
            /\ concurrent_limit' = IF max_concurrent = 0
                                   THEN calculate_optimal_concurrency(Len(ips))
                                   ELSE max_concurrent
            /\ scan_ret' = IF mode = "scan_stream"
                           THEN [status |-> "Ok", miners |-> <<>>]
                           ELSE scan_ret
    /\ outcomes' = [i \in 1..Len(ips) |-> Pending]
    /\ UNCHANGED <<ips, max_concurrent, build_err, build_call, next_ip, in_flight, found,
                   gmFrame>>

\* variant: the stream is buffered without a limit
BufferPull_Unbounded ==
    /\ scan_pc = "running"
    /\ next_ip <= Len(ips)
    /\ in_flight' = in_flight \cup {next_ip}
    /\ next_ip' = next_ip + 1
    /\ UNCHANGED <<ips, max_concurrent, build_err, build_call, scan_pc, scan_mode,
                   concurrent_limit, outcomes, found, scan_ret, gmFrame>>

\* buffer_unordered takes the next get_miner future from the address
\* iterator while fewer than the limit are in the buffer
BufferPull ==
    /\ scan_pc = "running"
    /\ Cardinality(in_flight) < concurrent_limit
    /\ next_ip <= Len(ips)
    /\ in_flight' = in_flight \cup {next_ip}
    /\ next_ip' = next_ip + 1
    /\ UNCHANGED <<ips, max_concurrent, build_err, build_call, scan_pc, scan_mode,
                   concurrent_limit, outcomes, found, scan_ret, gmFrame>>

\* the buffer is polled only when it is full or the iterator is exhausted
BufferPolled == Cardinality(in_flight) >= concurrent_limit \/ next_ip > Len(ips)

\* variant: no filter_map, every finished address is passed on
GetMinerReturns_NoFilter(i) ==
    /\ scan_pc = "running"
    /\ BufferPolled
    /\ i \in in_flight
    /\ \E miner_opt \in {r \in GetMinerResults : r.kind # "Panic"} :
          /\ found' = Append(found, [ip |-> ips[i], backend |-> miner_opt.backend])
          /\ outcomes' = [outcomes EXCEPT ![i] = miner_opt]
    /\ in_flight' = in_flight \ {i}
    /\ UNCHANGED <<ips, max_concurrent, build_err, build_call, scan_pc, scan_mode,
                   concurrent_limit, next_ip, scan_ret, gmFrame>>

\* a get_miner future of the buffer returns Ok(..): `.ok().flatten()` and
\* filter_map keep the device, if there is one
GetMinerReturns(i) ==
    /\ scan_pc = "running"
    /\ BufferPolled
    /\ i \in in_flight
    /\ \E miner_opt \in {r \in GetMinerResults : r.kind # "Panic"} :
          /\ found' = IF miner_opt.kind = "Some"
                      THEN Append(found, [ip |-> ips[i], backend |-> miner_opt.backend])
                      ELSE found
          /\ outcomes' = [outcomes EXCEPT ![i] = miner_opt]
    /\ in_flight' = in_flight \ {i}
    /\ UNCHANGED <<ips, max_concurrent, build_err, build_call, scan_pc, scan_mode,
                   concurrent_limit, next_ip, scan_ret, gmFrame>>

\* a get_miner future of the buffer panics: it is polled on the task that
\* drives the stream, so the panic unwinds through scan (or through the
\* consumer of the stream) and drops the buffer
GetMinerPanics(i) ==
    /\ scan_pc = "running"
    /\ BufferPolled
    /\ i \in in_flight
    /\ Panic \in GetMinerResults
    /\ scan_pc' = "panicked"
    /\ scan_ret' = [status |-> "Panic", miners |-> <<>>]
    /\ in_flight' = {}
    /\ UNCHANGED <<ips, max_concurrent, build_err, build_call, scan_mode, concurrent_limit,
                   next_ip, outcomes, found, gmFrame>>

\* the iterator is exhausted and the buffer is empty: collect() completes
\* and scan returns Ok(miners); the stream of scan_stream ends
ScanReturn ==
    /\ scan_pc = "running"
    /\ next_ip > Len(ips)
    /\ in_flight = {}
    /\ scan_pc' = "done"
    /\ scan_ret' = [status |-> "Ok", miners |-> IF scan_mode = "scan" THEN found ELSE <<>>]
    /\ UNCHANGED <<ips, max_concurrent, build_err, build_call, scan_mode, concurrent_limit,
                   next_ip, in_flight, outcomes, found, gmFrame>>

ScanNext ==
    \/ \E limit \in 1..MaxConcurrent : with_concurrent_limit(limit)
    \/ \E octet1 \in FirstOctetInputs, octet2 \in MiddleOctetInputs,
          octet3 \in MiddleOctetInputs, octet4 \in LastOctetInputs :
            with_octets(octet1, octet2, octet3, octet4)
    \/ \E range_str \in RangeInputs : with_range(range_str)
    \/ \E subnet \in SubnetInputs : with_subnet(subnet)
    \/ \E mode \in {"scan", "scan_stream"} : ScanCall(mode)
    \/ BufferPull
    \/ \E i \in 1..Len(ips) : GetMinerReturns(i)
    \/ \E i \in 1..Len(ips) : GetMinerPanics(i)
    \/ ScanReturn

ScanSpec == InitFactory /\ [][ScanNext]_vars

\* the last-octet strings of address lists on both sides of the first
\* breakpoint: "1", "1-2", "1-100", "0-100" and "0-255"
WideOctetInputs == {<<1>>, <<1, 2>>, <<1, 100>>, <<0, 100>>, <<0, 255>>}

\* a factory on which only address-list builders are called before the
\* scan starts: the concurrency limit is never set by the caller
AdaptiveNext ==
    \/ \E octet1 \in FirstOctetInputs, octet2 \in MiddleOctetInputs,
          octet3 \in MiddleOctetInputs, octet4 \in WideOctetInputs :
            with_octets(octet1, octet2, octet3, octet4)
    \/ \E range_str \in RangeInputs : with_range(range_str)
    \/ \E subnet \in SubnetInputs : with_subnet(subnet)
    \/ \E mode \in {"scan", "scan_stream"} : ScanCall(mode)

AdaptiveSpec == InitFactory /\ [][AdaptiveNext]_vars

(***************************************************************************)
(* Location maps of the backends                                           *)
(***************************************************************************)
Location(command, key, tag) == [command |-> command, key |-> key, tag |-> tag]

Rpc(command) == MinerCommand("RPC", command, None)

RpcWith(command, parameters) == MinerCommand("RPC", command, parameters)

\* LuxMinerV1::get_locations
LuxMinerV1Locations(data_field) ==
    LET version_cmd == Rpc("version")
        stats_cmd == Rpc("stats")
        summary_cmd == Rpc("summary")
        pools_cmd == Rpc("pools")
        config_cmd == Rpc("config")
        fans_cmd == Rpc("fans")
        power_cmd == Rpc("power")
        profiles_cmd == Rpc("profiles")
        temps_cmd == Rpc("temps")
        devs_cmd == Rpc("devs")
    IN  CASE data_field = "Mac" -> <<Location(config_cmd, "/CONFIG/0/MACAddr", None)>>
          [] data_field = "Fans" -> <<Location(fans_cmd, "/FANS", None)>>
          [] data_field = "ApiVersion" -> <<Location(version_cmd, "/VERSION/0/API", None)>>
          [] data_field = "FirmwareVersion" ->
                <<Location(version_cmd, "/VERSION/0/Miner", None)>>
          [] data_field = "Hostname" -> <<Location(config_cmd, "/CONFIG/0/Hostname", None)>>
          [] data_field = "Hashboards" ->
                <<Location(RpcWith("healthchipget", "0"), "/CHIPS", "CHIPS_0"),
                  Location(RpcWith("healthchipget", "1"), "/CHIPS", "CHIPS_1"),
                  Location(RpcWith("healthchipget", "2"), "/CHIPS", "CHIPS_2"),
                  Location(stats_cmd, "/STATS/1", "STATS"),
                  Location(temps_cmd, "", None),
                  Location(RpcWith("voltageget", "0"), "/VOLTAGE", "VOLTAGE_0"),
                  Location(RpcWith("voltageget", "1"), "/VOLTAGE", "VOLTAGE_1"),
                  Location(RpcWith("voltageget", "2"), "/VOLTAGE", "VOLTAGE_2"),
                  Location(RpcWith("voltageget", "0"), "/VOLTAGE", "VOLTAGE_PSU"),
                  Location(temps_cmd, "", "TEMPS"),
                  Location(devs_cmd, "/DEVS", "DEVS")>>
          [] data_field = "LightFlashing" ->
                <<Location(config_cmd, "/CONFIG/0/RedLed", None)>>
          [] data_field = "IsMining" -> <<Location(summary_cmd, "/SUMMARY/0/GHS 5s", None)>>
          [] data_field = "Uptime" -> <<Location(stats_cmd, "/STATS/1/Elapsed", None)>>
          [] data_field = "Pools" -> <<Location(pools_cmd, "/POOLS", None)>>
          [] data_field = "Wattage" -> <<Location(power_cmd, "/POWER/0/Watts", None)>>
          [] data_field = "WattageLimit" ->
                <<Location(config_cmd, "/CONFIG/0/Profile", "Profile"),
                  Location(profiles_cmd, "/PROFILES", "Profiles")>>
          [] data_field = "SerialNumber" ->
                <<Location(config_cmd, "/CONFIG/0/SerialNumber", None)>>
          [] data_field = "Messages" -> <<Location(summary_cmd, "/STATUS", None)>>
          [] data_field = "ControlBoardVersion" ->
                <<Location(config_cmd, "/CONFIG/0/ControlBoardType", None)>>
          [] data_field = "Hashrate" -> <<Location(stats_cmd, "/STATS/1/GHS 5s", None)>>
          [] data_field = "ExpectedHashrate" -> <<Location(devs_cmd, "/DEVS", None)>>
          [] data_field = "FluidTemperature" -> <<Location(temps_cmd, "", None)>>
          [] OTHER -> <<>>

\* BraiinsV2109::get_locations; a GraphQL Command carries its query text,
\* named here after the constant that holds it
BraiinsV2109Locations(data_field) ==
    LET GQL_SYSTEM == MinerCommand("GraphQL", "GQL_SYSTEM", None)
        GQL_BOARDS == MinerCommand("GraphQL", "GQL_BOARDS", None)
        GQL_POOLS == MinerCommand("GraphQL", "GQL_POOLS", None)
        GQL_EVENTS ==
            MinerCommand("GraphQL", "{ events { appeals { kind timestamp message } } }", None)
        rpc_version == MinerCommand("RPC", "version", None)
        WEB_NET_CONF == MinerCommand("WebAPI", "admin/network/iface_status/lan", None)
    IN  CASE data_field = "ApiVersion" -> <<Location(rpc_version, "/VERSION/0/API", None)>>
          [] data_field = "FirmwareVersion" ->
                <<Location(GQL_SYSTEM, "/bos/info/version/full", None)>>
          [] data_field = "Hostname" -> <<Location(GQL_SYSTEM, "/bos/hostname", None)>>
          [] data_field = "Mac" -> <<Location(WEB_NET_CONF, "/0/macaddr", None)>>
          [] data_field = "LightFlashing" -> <<Location(GQL_SYSTEM, "/bos/faultLight", None)>>
          [] data_field = "Uptime" -> <<Location(GQL_SYSTEM, "/bos/uptime/durationS", None)>>
          [] data_field = "Hashrate" ->
                <<Location(GQL_SYSTEM, "/bosminer/info/workSolver/realHashrate/mhs5S", None)>>
          [] data_field = "ExpectedHashrate" ->
                <<Location(GQL_SYSTEM, "/bosminer/info/workSolver/nominalMhs", None)>>
          [] data_field = "Hashboards" ->
                <<Location(GQL_BOARDS, "/bosminer/info/workSolver/childSolvers", None)>>
          [] data_field = "Fans" -> <<Location(GQL_SYSTEM, "/bosminer/info/fans", None)>>
          [] data_field = "Pools" -> <<Location(GQL_POOLS, "/bosminer", None)>>
          [] data_field = "Wattage" ->
                <<Location(GQL_SYSTEM, "/bosminer/info/summary/power/approxConsumptionW", None)>>
          [] data_field = "WattageLimit" ->
                <<Location(GQL_SYSTEM, "/bosminer/info/summary/power/limitW", None)>>
          [] data_field = "IsMining" ->
                <<Location(GQL_SYSTEM, "/bosminer/info/workSolver", None)>>
          [] data_field = "Messages" -> <<Location(GQL_EVENTS, "/events/appeals", None)>>
          [] OTHER -> <<>>

get_locations(backend, data_field) ==
    CASE backend = "LuxMinerV1"   -> LuxMinerV1Locations(data_field)
      [] backend = "BraiinsV2109" -> BraiinsV2109Locations(data_field)

\* the closed Field catalog
DataField ==
    {"Mac", "SerialNumber", "Hostname", "ApiVersion", "FirmwareVersion",
     "ControlBoardVersion", "Hashboards", "Hashrate", "ExpectedHashrate", "Fans", "PsuFans",
     "AverageTemperature", "FluidTemperature", "Wattage", "WattageLimit", "Efficiency",
     "LightFlashing", "Messages", "Uptime", "IsMining", "Pools", "TotalChips"}

\* the order in which a pass walks the catalog
DataFieldOrder ==
    <<"Mac", "SerialNumber", "Hostname", "ApiVersion", "FirmwareVersion",
      "ControlBoardVersion", "Hashboards", "Hashrate", "ExpectedHashrate", "Fans", "PsuFans",
      "AverageTemperature", "FluidTemperature", "Wattage", "WattageLimit", "Efficiency",
      "LightFlashing", "Messages", "Uptime", "IsMining", "Pools", "TotalChips">>

(***************************************************************************)
(* APIClient::get_api_result of the backends                               *)
(***************************************************************************)
\* a transport asked to run a Command: Err when the transport for that
\* Command fails, else the raw response
Transport(command, broken) == IF command \in broken THEN "Err" ELSE "Ok"

\* variant: the WebAPI arm is missing and falls to `_ => Err(..)`
get_api_result_NoWebArm(backend, command, broken) ==
    CASE backend = "LuxMinerV1" ->
            IF command.variant = "RPC" THEN Transport(command, broken) ELSE "Err"
      [] backend = "BraiinsV2109" ->
            IF command.variant \in {"RPC", "GraphQL"}
            THEN Transport(command, broken) ELSE "Err"

get_api_result(backend, command, broken) ==
    CASE backend = "LuxMinerV1" ->
            IF command.variant = "RPC" THEN Transport(command, broken) ELSE "Err"
      [] backend = "BraiinsV2109" ->
            IF command.variant \in {"RPC", "GraphQL", "WebAPI"}
            THEN Transport(command, broken) ELSE "Err"

(***************************************************************************)
(* Collector (DataCollector::collect)                                      *)
(***************************************************************************)
\* most Commands whose transport is broken in one pass
MaxFailing == 1

RECURSIVE LocationCommands(_, _, _)
\* the Commands of the locations of the asked Fields, in catalog order
LocationCommands(backend, fields, order) ==
    IF order = <<>> THEN <<>>
    ELSE (IF Head(order) \in fields
          THEN [i \in 1..Len(get_locations(backend, Head(order))) |->
                    get_locations(backend, Head(order))[i].command]
          ELSE <<>>) \o LocationCommands(backend, fields, Tail(order))

\* every Command some location of LuxMinerV1 names
LuxMinerV1Commands == SeqToSet(LocationCommands("LuxMinerV1", DataField, DataFieldOrder))

\* every Command some location of BraiinsV2109 names
BraiinsV2109Commands == SeqToSet(LocationCommands("BraiinsV2109", DataField, DataFieldOrder))

\* every Command some location of the backend names
MapCommands(backend) ==
    CASE backend = "LuxMinerV1"   -> LuxMinerV1Commands
      [] backend = "BraiinsV2109" -> BraiinsV2109Commands

\* the sets of Commands whose transport can be broken during one pass
LuxMinerV1Failures == BoundedSubsets(LuxMinerV1Commands, MaxFailing)

BraiinsV2109Failures == BoundedSubsets(BraiinsV2109Commands, MaxFailing)

TransportFailures(backend) ==
    CASE backend = "LuxMinerV1"   -> LuxMinerV1Failures
      [] backend = "BraiinsV2109" -> BraiinsV2109Failures

\* the Field selections a pass is run with: the whole catalog (collect_all)
\* or some Fields of it
FieldSelections(backend) ==
    CASE backend = "BraiinsV2109" -> {DataField}
      [] backend = "LuxMinerV1" ->
            {{"Hashboards"}, {"Mac", "Hostname", "WattageLimit", "PsuFans"},
             {"ExpectedHashrate", "FluidTemperature", "Uptime", "Hashrate", "Messages"}}

\* variant: one entry per Command, that of the first location that names it
extract_field_PerCommand(backend, data_field, responses) ==
    LET locations == get_locations(backend, data_field)
    IN  {[tag |-> locations[i].tag, command |-> locations[i].command,
          key |-> locations[i].key] :
            i \in {j \in 1..Len(locations) :
                      /\ locations[j].command \in responses
                      /\ \A k \in 1..(j - 1) : locations[k].command # locations[j].command}}

\* extraction of one Field from the raw result map: one entry per location
\* whose Command has a response, under the location's tag
extract_field(backend, data_field, responses) ==
    LET locations == get_locations(backend, data_field)
    IN  {[tag |-> locations[i].tag, command |-> locations[i].command,
          key |-> locations[i].key] :
            i \in {j \in 1..Len(locations) : locations[j].command \in responses}}

\* step 1-2: the distinct Commands of the asked Fields
CollectCall(backend, fields, broken) ==
    /\ col_pc = "idle"
    /\ col_backend' = backend
    /\ col_fields' = fields
    /\ failing' = broken
    /\ required' = HashSetFromSeq(<<>>, LocationCommands(backend, fields, DataFieldOrder))
    /\ pending' = 1..Len(required')
    /\ dispatch_count' = [c \in MapCommands(backend) |-> 0]
    /\ cache' = {}
    /\ col_pc' = "dispatching"
    /\ UNCHANGED <<output, gmVars, scanVars, unitVars, transportVars>>

\* step 3: one dispatch of one distinct Command, in any order; a failure
\* leaves the raw result map without an entry
Dispatch(i) ==
    /\ col_pc = "dispatching"
    /\ i \in pending
    /\ pending' = pending \ {i}
    /\ dispatch_count' = [dispatch_count EXCEPT ![required[i]] = @ + 1]
    /\ cache' = IF get_api_result(col_backend, required[i], failing) = "Ok"
                THEN cache \cup {required[i]}
                ELSE cache
    /\ UNCHANGED <<col_pc, col_backend, col_fields, failing, required, output, gmVars,
                   scanVars, unitVars, transportVars>>

\* step 4-5: all dispatches are back; a Field with no extracted value is
\* left out of the output
Assemble ==
    /\ col_pc = "dispatching"
    /\ pending = {}
    /\ output' = [f \in {g \in col_fields : extract_field(col_backend, g, cache) # {}} |->
                      extract_field(col_backend, f, cache)]
    /\ col_pc' = "done"
    /\ UNCHANGED <<col_backend, col_fields, failing, required, pending, dispatch_count,
                   cache, gmVars, scanVars, unitVars, transportVars>>

CollectNext ==
    \/ \E backend \in {"LuxMinerV1", "BraiinsV2109"} :
          \E fields \in FieldSelections(backend) :
            \E broken \in TransportFailures(backend) :
              CollectCall(backend, fields, broken)
    \/ \E i \in 1..Len(required) : Dispatch(i)
    \/ Assemble

CollectSpec == InitFactory /\ [][CollectNext]_vars

(***************************************************************************)
(* The functions of the factory, applied on their own                      *)
(***************************************************************************)
\* the address counts calculate_optimal_concurrency is applied to
IpCounts ==
    {0, 1, 50, 99, 100, 101, 500, 999, 1000, 1001, 4999, 5000, 5001, 9999, 10000, 10001,
     50000}

\* most pieces an octet string has after split('-')
MaxParts == 3

\* the pieces of an octet string: numbers, and -1 for a piece that is empty
\* or not a number
OctetPieces == {-1, 0, 1, 7, 200, 255, 256}

\* the octet strings parse_octet_range is applied to
OctetStrings == UNION {[1..n -> OctetPieces] : n \in 1..MaxParts}

\* the octet strings generate_ips_from_octets is applied to: "192" "10";
\* "168" "0-1"; "1" "7-8" "2-1"; "1-255" "1" "1-3" "0-255" "256"
ExpandInputs ==
    {<<octet1, octet2, octet3, octet4>> :
        octet1 \in {<<192>>, <<10>>}, octet2 \in {<<168>>, <<0, 1>>},
        octet3 \in {<<1>>, <<7, 8>>, <<2, 1>>},
        octet4 \in {<<1, 255>>, <<1>>, <<1, 3>>, <<0, 255>>, <<256>>}}

Apply(fn, arg) ==
    CASE fn = "parse_type_from_socket" -> parse_type_from_socket(arg)
      [] fn = "parse_type_from_web" -> parse_type_from_web(arg)
      [] fn = "calculate_optimal_concurrency" -> calculate_optimal_concurrency(arg)
      [] fn = "parse_octet_range" -> parse_octet_range(arg)
      [] fn = "generate_ips_from_octets" ->
            generate_ips_from_octets(arg[1], arg[2], arg[3], arg[4])

\* parse_type_from_socket is applied to a payload
ClassifySocket(response) ==
    /\ applications = 0
    /\ call' = [fn |-> "parse_type_from_socket", arg |-> response]
    /\ result' = parse_type_from_socket(response)
    /\ applications' = 1
    /\ UNCHANGED <<again, gmVars, scanVars, collectVars, transportVars>>

\* parse_type_from_web is applied to a body, headers and a status
ClassifyWeb(response) ==
    /\ applications = 0
    /\ call' = [fn |-> "parse_type_from_web", arg |-> response]
    /\ result' = parse_type_from_web(response)
    /\ applications' = 1
    /\ UNCHANGED <<again, gmVars, scanVars, collectVars, transportVars>>

CalculateConcurrency(ip_count) ==
    /\ applications = 0
    /\ call' = [fn |-> "calculate_optimal_concurrency", arg |-> ip_count]
    /\ result' = calculate_optimal_concurrency(ip_count)
    /\ applications' = 1
    /\ UNCHANGED <<again, gmVars, scanVars, collectVars, transportVars>>

ParseOctetRange(range_str) ==
    /\ applications = 0
    /\ call' = [fn |-> "parse_octet_range", arg |-> range_str]
    /\ result' = parse_octet_range(range_str)
    /\ applications' = 1
    /\ UNCHANGED <<again, gmVars, scanVars, collectVars, transportVars>>

GenerateIps(octets) ==
    /\ applications = 0
    /\ call' = [fn |-> "generate_ips_from_octets", arg |-> octets]
    /\ result' = generate_ips_from_octets(octets[1], octets[2], octets[3], octets[4])
    /\ applications' = 1
    /\ UNCHANGED <<again, gmVars, scanVars, collectVars, transportVars>>

\* the function is applied to the same argument once more
CallAgain ==
    /\ applications = 1
    /\ again' = Apply(call.fn, call.arg)
    /\ applications' = 2
    /\ UNCHANGED <<call, result, gmVars, scanVars, collectVars, transportVars>>

UnitNext ==
    \/ \E response \in SocketResponses : ClassifySocket(response)
    \/ \E response \in WebResponses : ClassifyWeb(response)
    \/ \E ip_count \in IpCounts : CalculateConcurrency(ip_count)
    \/ \E range_str \in OctetStrings : ParseOctetRange(range_str)
    \/ \E octets \in ExpandInputs : GenerateIps(octets)
    \/ CallAgain

UnitSpec == InitFactory /\ [][UnitNext]_vars

(***************************************************************************)
(* braiins::v21_09 - BraiinsWebAPI and BraiinsGraphQLAPI.  The commands of *)
(* one client run concurrently; each `.await` lets another command run.    *)
(***************************************************************************)
sessionFrame == <<retryVars, gmVars, scanVars, collectVars, unitVars>>

\* BraiinsWebAPI::new / BraiinsGraphQLAPI::new: no session is stored
BraiinsNew(api) ==
    /\ session_api = None
    /\ session_api' = api
    /\ UNCHANGED <<session_id, logins, issued, cmd_pc, cmd_privileged, cmd_late,
                   cmd_session, sent_with, cmd_result, sessionFrame>>

\* send_luci_command always calls ensure_authenticated, send_graphql_command
\* when `privileged`
SendCommand(i, privileged) ==
    /\ session_api # None
    /\ cmd_pc[i] = "idle"
    /\ session_api = "luci" => privileged
    /\ cmd_privileged' = [cmd_privileged EXCEPT ![i] = privileged]
    /\ cmd_late' = [cmd_late EXCEPT ![i] = session_id # NoSession]
    /\ cmd_pc' = [cmd_pc EXCEPT ![i] = IF privileged THEN "ensure" ELSE "request"]
    /\ UNCHANGED <<session_api, session_id, logins, issued, cmd_session, sent_with,
                   cmd_result, sessionFrame>>

\* ensure_authenticated: `if self.session_id.read().await.is_some()`; the
\* read guard is dropped before authenticate is called
EnsureAuthenticated(i) ==
    /\ cmd_pc[i] = "ensure"
    /\ cmd_pc' = [cmd_pc EXCEPT ![i] = IF session_id # NoSession THEN "request"
                                       ELSE "authenticate"]
    /\ UNCHANGED <<session_api, session_id, logins, issued, cmd_privileged, cmd_late,
                   cmd_session, sent_with, cmd_result, sessionFrame>>

\* authenticate: the login request is sent; the device answers with the
\* cookie of a new session, without one, or not at all, and `?` returns
\* the error from the command
Authenticate(i, outcome) ==
    /\ cmd_pc[i] = "authenticate"
    /\ logins' = logins + 1
    /\ IF outcome = "Session"
       THEN /\ issued' = issued + 1
            /\ cmd_session' = [cmd_session EXCEPT ![i] = issued + 1]
            /\ cmd_pc' = [cmd_pc EXCEPT ![i] = "store"]
            /\ UNCHANGED cmd_result
       ELSE /\ cmd_result' = [cmd_result EXCEPT ![i] = "AuthError"]
            /\ cmd_pc' = [cmd_pc EXCEPT ![i] = "done"]
            /\ UNCHANGED <<issued, cmd_session>>
    /\ UNCHANGED <<session_api, session_id, cmd_privileged, cmd_late, sent_with,
                   sessionFrame>>

\* `*self.session_id.write().await = Some(session)`
StoreSession(i) ==
    /\ cmd_pc[i] = "store"
    /\ session_id' = cmd_session[i]
    /\ cmd_pc' = [cmd_pc EXCEPT ![i] = "request"]
    /\ UNCHANGED <<session_api, logins, issued, cmd_privileged, cmd_late, cmd_session,
                   sent_with, cmd_result, sessionFrame>>

\* the request is built with the Cookie of the session id stored now, or
\* without a Cookie, and sent
SendRequest(i) ==
    /\ cmd_pc[i] = "request"
    /\ sent_with' = [sent_with EXCEPT ![i] = session_id]
    /\ cmd_pc' = [cmd_pc EXCEPT ![i] = "sent"]
    /\ UNCHANGED <<session_api, session_id, logins, issued, cmd_privileged, cmd_late,
                   cmd_session, cmd_result, sessionFrame>>

SessionOutcomes == {"Ok", "RequestFailed", "HttpError", "ParseError"}

\* variant: an HTTP error drops the stored session
ReceiveResponse_DropsSession(i, outcome) ==
    /\ cmd_pc[i] = "sent"
    /\ cmd_result' = [cmd_result EXCEPT ![i] = outcome]
    /\ cmd_pc' = [cmd_pc EXCEPT ![i] = "done"]
    /\ session_id' = IF outcome = "HttpError" THEN NoSession ELSE session_id
    /\ UNCHANGED <<session_api, logins, issued, cmd_privileged, cmd_late,
                   cmd_session, sent_with, sessionFrame>>

\* the response, or the failure, of the request: the command returns
ReceiveResponse(i, outcome) ==
    /\ cmd_pc[i] = "sent"
    /\ cmd_result' = [cmd_result EXCEPT ![i] = outcome]
    /\ cmd_pc' = [cmd_pc EXCEPT ![i] = "done"]
    /\ UNCHANGED <<session_api, session_id, logins, issued, cmd_privileged, cmd_late,
                   cmd_session, sent_with, sessionFrame>>

SessionNext ==
    \/ \E api \in {"luci", "graphql"} : BraiinsNew(api)
    \/ \E i \in Commands, privileged \in BOOLEAN : SendCommand(i, privileged)
    \/ \E i \in Commands : EnsureAuthenticated(i)
    \/ \E i \in Commands, outcome \in {"Session", "NoCookie", "RequestFailed"} :
          Authenticate(i, outcome)
    \/ \E i \in Commands : StoreSession(i)
    \/ \E i \in Commands : SendRequest(i)
    \/ \E i \in Commands, outcome \in SessionOutcomes : ReceiveResponse(i, outcome)

SessionSpec == InitFactory /\ [][SessionNext]_vars

(***************************************************************************)
(* espminer::v2_0_0 - ESPMinerWebAPI::send_command (BitAxeWebAPI and       *)
(* NerdAxeWebAPI have the same loop)                                       *)
(***************************************************************************)
retryFrame == <<sessionVars, gmVars, scanVars, collectVars, unitVars>>

\* with_retries on the client that new() built with retries = 1
with_retries(n) ==
    /\ retry_pc = "idle"
    /\ retries' = n
    /\ UNCHANGED <<retry_pc, attempt, attempts, retry_ret, retryFrame>>

\* send_command enters `for attempt in 0..=self.retries`
send_command ==
    /\ retry_pc = "idle"
    /\ retry_pc' = "loop"
    /\ attempt' = 0
    /\ UNCHANGED <<retries, attempts, retry_ret, retryFrame>>

\* what one execute_request and the parse of its body can meet: a JSON
\* body with a success status, an error of execute_request (timeout,
\* network, request or method error), a non-success status, a body that is
\* not JSON
RequestOutcomes == {"Ok", "RequestError", "HttpError", "ParseError"}

\* variant: the non-success status arm has no check for the last attempt
LoopBody_StatusFallsThrough(outcome) ==
    /\ retry_pc = "loop"
    /\ attempts' = Append(attempts, outcome)
    /\ IF outcome = "Ok" \/ (outcome # "HttpError" /\ attempt = retries)
       THEN retry_pc' = "done" /\ retry_ret' = outcome /\ UNCHANGED attempt
       ELSE IF attempt + 1 > retries
            THEN retry_pc' = "done" /\ retry_ret' = "MaxRetriesExceeded" /\ UNCHANGED attempt
            ELSE attempt' = attempt + 1 /\ UNCHANGED <<retry_pc, retry_ret>>
    /\ UNCHANGED <<retries, retryFrame>>

\* one pass through the loop body: Ok returns the JSON value, every error
\* arm returns its error when `attempt == self.retries`, otherwise the
\* loop goes on; after the loop comes `Err(MaxRetriesExceeded)`
LoopBody(outcome) ==
    /\ retry_pc = "loop"
    /\ attempts' = Append(attempts, outcome)
    /\ IF outcome = "Ok" \/ attempt = retries
       THEN retry_pc' = "done" /\ retry_ret' = outcome /\ UNCHANGED attempt
       ELSE IF attempt + 1 > retries
            THEN retry_pc' = "done" /\ retry_ret' = "MaxRetriesExceeded" /\ UNCHANGED attempt
            ELSE attempt' = attempt + 1 /\ UNCHANGED <<retry_pc, retry_ret>>
    /\ UNCHANGED <<retries, retryFrame>>

RetryNext ==
    \/ \E n \in 0..MaxRetries : with_retries(n)
    \/ send_command
    \/ \E outcome \in RequestOutcomes : LoopBody(outcome)

\* execute_request is bounded by `timeout(self.timeout, ..)`, so every pass
\* through the loop body comes to its end
RetrySpec ==
    /\ InitFactory
    /\ [][RetryNext]_vars
    /\ WF_vars(\E outcome \in RequestOutcomes : LoopBody(outcome))

\* the task that awaits select! is polled once a branch is ready, and the
\* clock of the runtime advances
LiveSpec ==
    /\ Spec
    /\ WF_vars(Tick)
    /\ WF_vars(SelectTasks \/ SelectTimeout)

(***************************************************************************)
(* Properties of get_miner                                                 *)
(***************************************************************************)
\* no probe task has finished since the call
ProbesSilent == commands # <<>> /\ race.state = "running" /\ CompletionLog = <<>>

\* C1: get_miner never stays in the probe race for ever; when no probe ever
\* responds it returns Ok(None), and does so at the tick at which the
\* configured discovery timeout has elapsed.
C1_TimeoutBound ==
    /\ [](gm_pc = "done" /\ ProbesSilent => ret = NoBackend /\ clock = discovery_timeout)
    /\ [](ProbesSilent => gm_pc \in {"select", "done"})
    /\ (gm_pc = "select") ~> (gm_pc # "select")

C1_Witness ==
    /\ gm_pc = "done"
    /\ ProbesSilent
    /\ Len(commands) = 3
    /\ ret = NoBackend

\* position k of a completion log holds the first positive classification
FirstMatchAt(log, k) ==
    /\ log[k].out.kind = "Some"
    /\ \A j \in 1..(k - 1) : log[j].out.kind # "Some"

\* C2: the classification get_miner uses is the output of the race loop, and
\* the race loop ends with the output of the probe task that was first, in
\* completion order, to finish with a positive classification; it ends
\* without one only when no probe task is outstanding and none matched.
C2_FirstMatchWins ==
    /\ [](miner_info.kind = "Some" => race.state = "finished" /\ miner_info = race.out)
    /\ [][(race.state = "running" /\ race'.state = "finished") =>
            \/ \E k \in 1..Len(CompletionLog) :
                  /\ FirstMatchAt(CompletionLog, k)
                  /\ race'.out = CompletionLog[k].out
            \/ /\ race'.out = NoneType
               /\ Outstanding = {}
               /\ \A k \in 1..Len(CompletionLog) : CompletionLog[k].out.kind # "Some"]_vars

\* a probe finished with no match, was skipped, and a later one matched
C2_Witness ==
    /\ miner_info.kind = "Some"
    /\ Len(joined) >= 2
    /\ joined[1].out.kind = "None"
    /\ gm_pc = "done"

\* every probe task has been handed to the race loop and none matched
AllProbesFailed ==
    /\ gm_pc # "idle"
    /\ Len(joined) = Len(commands)
    /\ \A k \in 1..Len(joined) : joined[k].out.kind \in {"None", "JoinError"}

\* a response that carries no fingerprint at all
BlankResponse(command) ==
    IF command.variant = "RPC" THEN Response({})
    ELSE Response([text |-> {}, www_authenticate |-> None, location |-> None, status |-> 200])

\* C8: a probe whose transport fails has the output of a probe that found
\* no match; no probe output makes get_miner panic or resolve anything, and
\* when every probe failed (or panicked) get_miner returns Ok(None).
C8_ProbeFailureIsNoMatch ==
    /\ \A i \in 1..Len(commands) :
          get_miner_type_from_command(commands[i], NoResponse)
              = get_miner_type_from_command(commands[i], BlankResponse(commands[i]))
    /\ AllProbesFailed =>
          /\ gm_pc \in {"select", "done"}
          /\ miner_info.kind # "Some"
          /\ model = NoModel /\ version = NoVersion
          /\ gm_pc = "done" => ret = NoBackend

\* all three probes failed, one of them by a panic, and get_miner returned
\* through the race branch before the timeout
C8_Witness ==
    /\ AllProbesFailed
    /\ Len(commands) = 3
    /\ \E k \in 1..Len(joined) : joined[k].out.kind = "JoinError"
    /\ race.state = "finished"
    /\ gm_pc = "done"
    /\ clock < discovery_timeout
    /\ ret = NoBackend

\* C9: when select! resolves without a classification (the timeout branch,
\* or a race that ended empty) get_miner has returned Ok(None) without
\* calling a resolver, and nothing that happens after get_miner returned - a
\* late positive match of the detached race included - changes its result.
C9_TimeoutDiscardsLateMatch ==
    /\ [](miner_info = NoneType =>
            /\ gm_pc = "done"
            /\ ret = NoBackend
            /\ model = NoModel /\ version = NoVersion)
    /\ [][(gm_pc = "select" /\ gm_pc' # "select" /\ race.state = "running") =>
            (miner_info' = NoneType /\ gm_pc' = "done" /\ ret' = NoBackend)]_vars
    /\ [][gm_pc = "done" =>
            (gm_pc' = "done" /\ ret' = ret /\ miner_info' = miner_info
             /\ model' = model /\ version' = version)]_vars

\* the timeout branch was taken, then the detached race found a match
C9_Witness ==
    /\ gm_pc = "done"
    /\ miner_info = NoneType
    /\ ret = NoBackend
    /\ race.state = "finished"
    /\ race.out.kind = "Some"

\* the makes and firmwares get_miner searches
SearchedMakes == SeqToSet(IF search_makes.some THEN search_makes.list ELSE DefaultSearchMakes)

SearchedFirmwares ==
    SeqToSet(IF search_firmwares.some THEN search_firmwares.list ELSE DefaultSearchFirmwares)

\* who registers a Command as a discovery probe
Registrants(c) ==
    {m \in SearchedMakes : c \in SeqToSet(MakeDiscoveryCommands(m))} \cup
    {f \in SearchedFirmwares : c \in SeqToSet(FirmwareDiscoveryCommands(f))}

DiscoveryInventory == {RPC_VERSION, RPC_DEVDETAILS, HTTP_WEB_ROOT}

\* C10: a get_miner call launches exactly one probe task for every discovery
\* Command some searched make or firmware registers, however many register
\* it, and no probe task for any other Command.
C10_OneProbePerCommand ==
    gm_pc # "idle" =>
        \A c \in DiscoveryInventory :
            Occurrences(commands, c) = IF Registrants(c) # {} THEN 1 ELSE 0

\* the web-root GET is registered by every default make and issued once
C10_Witness ==
    /\ gm_pc # "idle"
    /\ Cardinality(Registrants(HTTP_WEB_ROOT)) >= 6
    /\ Cardinality(Registrants(RPC_VERSION)) >= 2
    /\ Occurrences(commands, HTTP_WEB_ROOT) = 1
    /\ Len(commands) = 3

(***************************************************************************)
(* Collection pass                                                         *)
(***************************************************************************)
\* the Commands the locations of the Field f name
FieldCommands(f) ==
    {get_locations(col_backend, f)[i].command : i \in 1..Len(get_locations(col_backend, f))}

\* the Commands the locations of the asked Fields name
ReferencedCommands == UNION {FieldCommands(f) : f \in col_fields}

\* how many locations of the asked Fields name the Command c
References(c) == Occurrences(LocationCommands(col_backend, col_fields, DataFieldOrder), c)

\* C3: in a collection pass every structurally distinct Command named by the
\* location map of the asked Fields is handed to a transport exactly once
\* when the pass is over (and never more than once while it runs), however
\* many Fields or tagged locations name it; Commands that differ in variant,
\* command string or parameters are counted, and dispatched, separately; a
\* Command no asked location names is not dispatched.
C3_DispatchedExactlyOnce ==
    col_pc # "idle" =>
        LET referenced == ReferencedCommands
        IN  \A c \in MapCommands(col_backend) :
                /\ dispatch_count[c] <= 1
                /\ c \notin referenced => dispatch_count[c] = 0
                /\ (col_pc = "done" /\ c \in referenced) => dispatch_count[c] = 1

\* a finished pass over the hashboard locations of LuxMinerV1: `voltageget 0`
\* and `temps` are each named by two locations and were dispatched once,
\* `voltageget 1` differs from `voltageget 0` in its parameters only and was
\* dispatched on its own
C3_Witness ==
    /\ col_pc = "done"
    /\ col_backend = "LuxMinerV1"
    /\ "Hashboards" \in col_fields
    /\ References(RpcWith("voltageget", "0")) = 2
    /\ dispatch_count[RpcWith("voltageget", "0")] = 1
    /\ dispatch_count[RpcWith("voltageget", "1")] = 1
    /\ References(Rpc("temps")) >= 2
    /\ dispatch_count[Rpc("temps")] = 1

\* the Fields of the pass the backend has locations for
SupportedFields == {f \in col_fields : get_locations(col_backend, f) # <<>>}

C5_ScanNeverAborts ==
    /\ scan_pc # "panicked"
    /\ scan_pc = "done" /\ ips # <<>> => (next_ip > Len(ips) /\ in_flight = {})

\* get_miner was aborted by the version resolver, before dispatch: a resolver
\* that panics leaves no version, dispatch panics only on a version it has
ResolverPanicked == gm_pc = "panicked" /\ ~version.some

\* C6: whenever classification found a device and the resolvers have
\* returned, backend selection returns a backend or `unsupported`, and
\* get_miner returns Ok(Some(..)) or Ok(None): it does not abort.
C6_DispatchTotal ==
    (miner_info.kind = "Some" /\ gm_pc \in {"done", "panicked"} /\ ~ResolverPanicked) =>
        /\ gm_pc = "done"
        /\ ret.kind \in {"Some", "None"}

\* C7: while scan or scan_stream runs, the get_miner calls in progress are
\* never more than the concurrency limit in effect (the configured limit, or
\* the adaptive one when none is configured).
C7_BoundedConcurrency ==
    scan_pc = "running" =>
        /\ concurrent_limit = (IF max_concurrent = 0
                               THEN calculate_optimal_concurrency(Len(ips))
                               ELSE max_concurrent)
        /\ Cardinality(in_flight) <= concurrent_limit

\* the buffer is full while an address still waits to be taken up
C7_Witness ==
    /\ scan_pc = "running"
    /\ Cardinality(in_flight) = concurrent_limit
    /\ next_ip <= Len(ips)
    /\ concurrent_limit < Len(ips)

\* the devices a finished call has delivered: the Vec scan returned, or the
\* items the stream of scan_stream has yielded
Delivered == IF scan_mode = "scan" THEN scan_ret.miners ELSE found

\* C11: a finished scan and a finished scan_stream deliver the same devices
\* for the same per-address outcomes: in either mode the delivered devices
\* are, in some order, the addresses whose get_miner returned a backend, each
\* exactly once and with that backend, and no other address.
C11_StreamDeliversWhatScanReturns ==
    (scan_pc = "done" /\ scan_ret.status = "Ok") =>
        /\ \A i \in 1..Len(ips) :
              Cardinality({k \in 1..Len(Delivered) : Delivered[k].ip = ips[i]})
                  = IF outcomes[i].kind = "Some" THEN 1 ELSE 0
        /\ \A k \in 1..Len(Delivered) :
              \E i \in 1..Len(ips) :
                  /\ Delivered[k].ip = ips[i]
                  /\ Delivered[k].backend = outcomes[i].backend
                  /\ outcomes[i].kind = "Some"

\* a finished scan_stream over three addresses: one had no backend, and the
\* two devices were yielded in the opposite order of their addresses
C11_Witness ==
    /\ scan_pc = "done"
    /\ scan_mode = "scan_stream"
    /\ Len(ips) = 3
    /\ \E i \in 1..3 : outcomes[i].kind = "None"
    /\ Len(Delivered) = 2
    /\ \E i, j \in 1..3 : i < j /\ Delivered[1].ip = ips[j] /\ Delivered[2].ip = ips[i]

(***************************************************************************)
(* Fingerprinting                                                          *)
(***************************************************************************)
\* the match arms of parse_type_from_socket, numbered in declaration order:
\* the guard of an arm on the upper-cased payload
SocketRuleMatches(rule, json_string) ==
    CASE rule = 1 -> "BOSMINER" \in json_string \/ "BOSER" \in json_string
      [] rule = 2 -> "LUXMINER" \in json_string
      [] rule = 3 -> "BITMICRO" \in json_string \/ "BTMINER" \in json_string
      [] rule = 4 -> "ANTMINER" \in json_string /\ "DEVDETAILS" \notin json_string
      [] rule = 5 -> "AVALON" \in json_string
      [] rule = 6 -> "VNISH" \in json_string

\* the classification of an arm
SocketRuleResult(rule) ==
    CASE rule = 1 -> SomeType(None, "BraiinsOS")
      [] rule = 2 -> SomeType(None, "LuxOS")
      [] rule = 3 -> SomeType("WhatsMiner", "Stock")
      [] rule = 4 -> SomeType("AntMiner", "Stock")
      [] rule = 5 -> SomeType("AvalonMiner", "Stock")
      [] rule = 6 -> SomeType(None, "VNish")

SocketRules == 1..6

\* the match arms of parse_type_from_web, numbered in declaration order
WebRuleMatches(rule, response) ==
    CASE rule = 1 -> /\ response.status = 401
                     /\ response.www_authenticate = "Digest realm=\"antMiner Configuration\""
      [] rule = 2 -> "Braiins OS" \in response.text
      [] rule = 3 -> "Luxor Firmware" \in response.text
      [] rule = 4 -> "AxeOS" \in response.text
      [] rule = 5 -> "Miner Web Dashboard" \in response.text
      [] rule = 6 -> "Avalon" \in response.text
      [] rule = 7 -> "AnthillOS" \in response.text
      [] rule = 8 -> \/ response.location = "https://host/" /\ response.status = 307
                     \/ "/cgi-bin/luci" \in response.text

WebRuleResult(rule) ==
    CASE rule = 1 -> SomeType("AntMiner", "Stock")
      [] rule = 2 -> SomeType(None, "BraiinsOS")
      [] rule = 3 -> SomeType(None, "LuxOS")
      [] rule = 4 -> SomeType("BitAxe", "Stock")
      [] rule = 5 -> SomeType(None, "EPic")
      [] rule = 6 -> SomeType("AvalonMiner", "Stock")
      [] rule = 7 -> SomeType(None, "VNish")
      [] rule = 8 -> SomeType("WhatsMiner", "Stock")

WebRules == 1..8

\* the earliest of a non-empty set of rules
Earliest(rules) == CHOOSE r \in rules : \A q \in rules : r <= q

\* C12: the classification of a response is that of the earliest arm, in
\* declaration order, whose guard the response meets, and no classification
\* when it meets none; classifying the same response again gives the same
\* (make, firmware) pair.
C12_EarliestRuleWins ==
    /\ (applications >= 1 /\ call.fn = "parse_type_from_socket") =>
          LET json_string == {ToUppercase(t) : t \in call.arg}
              matching == {r \in SocketRules : SocketRuleMatches(r, json_string)}
          IN  result = IF matching = {} THEN NoneType
                       ELSE SocketRuleResult(Earliest(matching))
    /\ (applications >= 1 /\ call.fn = "parse_type_from_web" /\ ~HeaderPanics(call.arg)) =>
          LET matching == {r \in WebRules : WebRuleMatches(r, call.arg)}
          IN  result = IF matching = {} THEN NoneType ELSE WebRuleResult(Earliest(matching))
    /\ (applications = 2 /\ call.fn \in {"parse_type_from_socket", "parse_type_from_web"}) =>
          again = result

\* a payload with both BOSMINER and BTMINER was classified twice, as Braiins
C12_Witness ==
    /\ applications = 2
    /\ call.fn = "parse_type_from_socket"
    /\ call.arg = {"BOSMINER", "BTMINER"}
    /\ result = SomeType(None, "BraiinsOS")
    /\ again = result

(***************************************************************************)
(* Completion order of the probes                                          *)
(***************************************************************************)
\* the positive classifications among the probe tasks of a completion log
Positives(log) == {log[k].out : k \in {j \in 1..Len(log) : log[j].out.kind = "Some"}}

\* C13 as stated: the classification does not depend on the order in which
\* the probes complete: when the race ends with a classification, every
\* probe that had completed with a classification by then had that same
\* one, so that the completions taken in another order end the race alike.
C13_OrderIndependent ==
    [][(race.state = "running" /\ race'.state = "finished") =>
            \A out \in Positives(CompletionLog) : out = race'.out]_vars

\* C13, amended: the classification does not depend on the completion order
\* of the probes that have completed when they agree: with one positive
\* classification among them the race ends with it wherever it stands in
\* the order, with none it ends empty; when completed probes disagree the
\* race ends with the classification of the one that completed first.
C13_OrderFreeWhenProbesAgree ==
    [][(race.state = "running" /\ race'.state = "finished") =>
            /\ Positives(CompletionLog) = {} => race'.out = NoneType
            /\ Cardinality(Positives(CompletionLog)) = 1 =>
                    race'.out \in Positives(CompletionLog)
            /\ Cardinality(Positives(CompletionLog)) > 1 =>
                    \E k \in 1..Len(CompletionLog) :
                        /\ FirstMatchAt(CompletionLog, k)
                        /\ race'.out = CompletionLog[k].out]_vars

\* three probes have completed and wait for the race loop: the first found
\* no match, the other two carry the same classification and completed in
\* the opposite order of their tasks
C13_Witness ==
    /\ gm_pc = "select"
    /\ race.state = "running"
    /\ Len(notified) = 3
    /\ notified[1].out.kind = "None"
    /\ notified[2].out.kind = "Some"
    /\ notified[3].out = notified[2].out
    /\ notified[2].task > notified[3].task

(***************************************************************************)
(* Version-gated backends                                                  *)
(***************************************************************************)
\* C14: for a WhatsMiner stock device with a resolved model and version,
\* get_miner returns the generation-3 backend when the version is at least
\* 2024.11.0 and the generation-2 backend for every version below it.
C14_WhatsMinerVersionGate ==
    (/\ gm_pc \in {"done", "panicked"}
     /\ miner_info = SomeType("WhatsMiner", "Stock")
     /\ model.some /\ version.some) =>
        ret = SomeBackend(IF VersionGE(version.v, <<2024, 11, 0>>)
                          THEN "BTMiner3" ELSE "BTMiner2")

(***************************************************************************)
(* Adaptive concurrency                                                    *)
(***************************************************************************)
\* calculate_optimal_concurrency was applied to the address count n
Calculated(n) ==
    applications >= 1 /\ call.fn = "calculate_optimal_concurrency" /\ call.arg = n

C16_ExampleLimits ==
    /\ Calculated(50) => result = 25
    /\ Calculated(500) => result = 50
    /\ Calculated(5000) => result = 150
    /\ Calculated(50000) => result = 200

\* C16, amended: the limits for 50, 500, 5000 and 50000 addresses are 25,
\* 50, 100 and 200; 150 is the limit from 5001 to 10000 addresses.
C16_ExampleLimitsAmended ==
    /\ Calculated(50) => result = 25
    /\ Calculated(500) => result = 50
    /\ Calculated(5000) => result = 100
    /\ Calculated(5001) => result = 150
    /\ Calculated(50000) => result = 200

\* the limit for 5000 addresses
C16_Witness == Calculated(5000) /\ result = 100

(***************************************************************************)
(* Octet ranges                                                            *)
(***************************************************************************)
\* generate_ips_from_octets was applied
Expanded == applications >= 1 /\ call.fn = "generate_ips_from_octets"

\* an octet string that denotes values: "v", or "a-b" with a <= b, within 0..255
DenotesRange(range_str) ==
    /\ Len(range_str) \in {1, 2}
    /\ \A k \in 1..Len(range_str) : range_str[k] \in 0..255
    /\ Len(range_str) = 2 => range_str[1] <= range_str[2]

\* the values such an octet string denotes
Denoted(range_str) ==
    IF Len(range_str) = 1 THEN {range_str[1]} ELSE range_str[1]..range_str[2]

\* C17: the four octet ranges expand to their cartesian product, each
\* combination once; "192", "168", "1", "1-255" gives exactly 255
\* addresses that all begin with 192.168.1.
C17_CartesianProduct ==
    (Expanded /\ \A k \in 1..4 : DenotesRange(call.arg[k])) =>
        /\ result.ok
        /\ {result.list[i] : i \in 1..Len(result.list)}
              = Denoted(call.arg[1]) \X Denoted(call.arg[2])
                  \X Denoted(call.arg[3]) \X Denoted(call.arg[4])
        /\ Len(result.list)
              = Cardinality(Denoted(call.arg[1])) * Cardinality(Denoted(call.arg[2]))
                  * Cardinality(Denoted(call.arg[3])) * Cardinality(Denoted(call.arg[4]))
        /\ call.arg = <<<<192>>, <<168>>, <<1>>, <<1, 255>>>> =>
              /\ Len(result.list) = 255
              /\ \A i \in 1..255 : SubSeq(result.list[i], 1, 3) = <<192, 168, 1>>

\* "192", "168", "1", "1-255" was expanded to 255 addresses
C17_Witness ==
    /\ Expanded
    /\ call.arg = <<<<192>>, <<168>>, <<1>>, <<1, 255>>>>
    /\ result.ok /\ Len(result.list) = 255

(***************************************************************************)
(* Malformed builder arguments                                             *)
(***************************************************************************)
\* a subnet string that is not an IPv4 network in CIDR notation
MalformedSubnet(subnet) ==
    \/ subnet.syntax # "cidr"
    \/ \E k \in 1..4 : subnet.addr[k] \notin 0..255
    \/ subnet.prefix \notin 0..32

\* the argument of the last address-list builder call is malformed
MalformedBuilderCall ==
    \/ /\ build_call.fn = "with_subnet"
       /\ MalformedSubnet(build_call.arg)
    \/ /\ build_call.fn = "with_range"
       /\ Len(build_call.arg) # 4
    \/ /\ build_call.fn \in {"with_range", "with_octets"}
       /\ Len(build_call.arg) = 4
       /\ \E k \in 1..4 : ~DenotesRange(build_call.arg[k])

\* C18: a malformed subnet string, a range string without exactly four
\* dot-separated parts, or an invalid octet range makes the builder call
\* return an error, and no scan and no probe has started by then.
C18_MalformedInputFailsAtConstruction ==
    /\ MalformedBuilderCall => build_err
    /\ build_err =>
          /\ scan_pc = "idle" /\ scan_ret.status = "Pending"
          /\ next_ip = 1 /\ in_flight = {} /\ found = <<>>
          /\ gm_pc = "idle" /\ commands = <<>>

\* with_range refused a string of five parts
C18_Witness ==
    /\ build_call.fn = "with_range" /\ Len(build_call.arg) = 5
    /\ build_err

\* parse_octet_range was applied
ParsedOctet == applications >= 1 /\ call.fn = "parse_octet_range"

\* C19: parse_octet_range turns "v" with v in 0..=255 into [v] and "a-b"
\* with a <= b, both in 0..=255, into the ascending list a..=b; it fails
\* when a > b, when there is more than one '-', and when a value is not an
\* integer in 0..=255.
C19_ParseOctetRange ==
    ParsedOctet =>
        LET range_str == call.arg
            InU8(k) == range_str[k] \in 0..255
        IN  /\ (Len(range_str) = 1 /\ InU8(1)) => result = Ok(<<range_str[1]>>)
            /\ (Len(range_str) = 2 /\ InU8(1) /\ InU8(2) /\ range_str[1] <= range_str[2]) =>
                  /\ result.ok
                  /\ Len(result.list) = range_str[2] - range_str[1] + 1
                  /\ \A i \in 1..Len(result.list) :
                        result.list[i] = range_str[1] + i - 1
            /\ (Len(range_str) = 2 /\ range_str[1] > range_str[2]) => ~result.ok
            /\ Len(range_str) > 2 => ~result.ok
            /\ (\E k \in 1..Len(range_str) : ~InU8(k)) => ~result.ok

\* "7-200" was parsed into 194 values
C19_Witness ==
    /\ ParsedOctet /\ call.arg = <<7, 200>>
    /\ result.ok /\ Len(result.list) = 194

(***************************************************************************)
(* Socket fingerprints                                                     *)
(***************************************************************************)
\* parse_type_from_socket was applied
ClassifiedSocket == applications >= 1 /\ call.fn = "parse_type_from_socket"

\* the payload holds the marker in upper or in lower case
Holds(marker) == marker \in call.arg \/ LowerOf(marker) \in call.arg

\* ANTMINER is the only vendor string of the payload
OnlyAntMiner ==
    /\ Holds("ANTMINER")
    /\ \A marker \in SocketMarkers \ {"ANTMINER", "DEVDETAILS"} : ~Holds(marker)

\* C20 as stated: in either case of letters, BOSMINER gives Braiins
\* firmware; otherwise BITMICRO or BTMINER gives (WhatsMiner, Stock), with
\* or without DEVDETAILS; and a payload whose only vendor string is ANTMINER
\* gives (AntMiner, Stock) exactly when DEVDETAILS is absent.
C20_SocketFingerprints ==
    ClassifiedSocket =>
        /\ Holds("BOSMINER") => result = SomeType(None, "BraiinsOS")
        /\ (~Holds("BOSMINER") /\ (Holds("BITMICRO") \/ Holds("BTMINER"))) =>
              result = SomeType("WhatsMiner", "Stock")
        /\ OnlyAntMiner =>
              (result = SomeType("AntMiner", "Stock") <=> ~Holds("DEVDETAILS"))

\* C20, amended: in either case of letters, BOSMINER gives Braiins firmware;
\* a payload with none of BOSMINER, BOSER and LUXMINER that holds BITMICRO
\* or BTMINER gives (WhatsMiner, Stock), with or without DEVDETAILS; and a
\* payload whose only vendor string is ANTMINER gives (AntMiner, Stock)
\* exactly when DEVDETAILS is absent.
C20_SocketFingerprintsAmended ==
    ClassifiedSocket =>
        /\ Holds("BOSMINER") => result = SomeType(None, "BraiinsOS")
        /\ (/\ ~Holds("BOSMINER") /\ ~Holds("BOSER") /\ ~Holds("LUXMINER")
            /\ Holds("BITMICRO") \/ Holds("BTMINER")) =>
              result = SomeType("WhatsMiner", "Stock")
        /\ OnlyAntMiner =>
              (result = SomeType("AntMiner", "Stock") <=> ~Holds("DEVDETAILS"))

\* a lower-case payload with btminer and devdetails was classified
C20_Witness ==
    /\ ClassifiedSocket
    /\ call.arg = {LowerOf("BTMINER"), LowerOf("DEVDETAILS")}
    /\ result = SomeType("WhatsMiner", "Stock")

(***************************************************************************)
(* The https redirect rule                                                 *)
(***************************************************************************)
\* parse_type_from_web was applied to a response whose headers are text
ClassifiedWeb ==
    applications >= 1 /\ call.fn = "parse_type_from_web" /\ ~HeaderPanics(call.arg)

\* the response meets none of the arms declared before the redirect arm
NoEarlierWebRule == \A rule \in 1..7 : ~WebRuleMatches(rule, call.arg)

\* C21: a web response that meets no earlier rule is (WhatsMiner, Stock)
\* when its status is 307 and its Location header holds "https://"; with
\* any other status the https Location alone gives no classification.
C21_HttpsRedirectNeeds307 ==
    (ClassifiedWeb /\ NoEarlierWebRule /\ call.arg.location = "https://host/") =>
        /\ call.arg.status = 307 => result = SomeType("WhatsMiner", "Stock")
        /\ (call.arg.status # 307 /\ "/cgi-bin/luci" \notin call.arg.text) =>
              result = NoneType

\* an https redirect with status 200 and an empty body was left unclassified
C21_Witness ==
    /\ ClassifiedWeb
    /\ call.arg.location = "https://host/" /\ call.arg.status = 200
    /\ call.arg.text = {} /\ call.arg.www_authenticate = None
    /\ result = NoneType

(***************************************************************************)
(* Order of the stages of get_miner                                        *)
(***************************************************************************)
\* the classification race has handed a positive match to get_miner
PositiveMatch ==
    /\ race.state = "finished" /\ race.out.kind = "Some"
    /\ miner_info = race.out

\* C22: the stages of get_miner run strictly in order: the model resolver
\* is called only once the race has produced a positive match, the version
\* resolver only once the model resolver has returned, a backend is
\* selected only once the version resolver has returned, and without a
\* positive match no resolver is called at all.
C22_StagesInOrder ==
    [][/\ gm_pc' = "model" => PositiveMatch'
       /\ model' # model => (gm_pc = "model" /\ PositiveMatch)
       /\ (gm_pc' = "version" /\ gm_pc # "version") => (gm_pc = "model" /\ PositiveMatch)
       /\ version' # version => (gm_pc = "version" /\ PositiveMatch)
       /\ (ret' # ret /\ ret'.kind \in {"Some", "Panic"}) =>
             (gm_pc = "version" /\ PositiveMatch)
       /\ (gm_pc' = "done" /\ miner_info'.kind # "Some") =>
             (gm_pc \in {"select", "done"} /\ model' = NoModel /\ version' = NoVersion)]_vars

\* a backend was selected after both resolvers had returned a value
C22_Witness ==
    /\ gm_pc = "done" /\ PositiveMatch
    /\ model.some /\ version.some /\ ret.kind = "Some"

(***************************************************************************)
(* Independent resolver failures                                           *)
(***************************************************************************)
\* C23: for a classified device the version resolver is called whether or
\* not the model resolver succeeded, and when the model or the version
\* (or both) is not resolved get_miner returns Ok(None): it neither fails
\* nor aborts.
C23_ResolversFailIndependently ==
    /\ (gm_pc = "version" /\ ~model.some) => PositiveMatch
    /\ (PositiveMatch /\ ~ReturnsAtOnce(miner_info) /\ gm_pc \in {"done", "panicked"}
          /\ (~model.some \/ ~version.some)) =>
            (gm_pc = "done" /\ ret = NoBackend)

(***************************************************************************)
(* Tagged locations                                                        *)
(***************************************************************************)
\* the entries the output holds for a Field under a tag
EntriesUnder(data_field, tag) ==
    IF data_field \in DOMAIN output
    THEN {entry \in output[data_field] : entry.tag = tag}
    ELSE {}

\* C24: in the collected output every tagged location of a Field whose
\* Command was answered has exactly one entry under its tag, holding what
\* that location extracts; two locations with the same Command and
\* different tags (LuxMiner voltageget "0" as VOLTAGE_0 and VOLTAGE_PSU)
\* each keep their entry.
C24_TaggedEntries ==
    col_pc = "done" =>
        \A data_field \in col_fields :
            LET locations == get_locations(col_backend, data_field)
            IN  \A i \in 1..Len(locations) :
                    (locations[i].tag # None /\ locations[i].command \in cache) =>
                        EntriesUnder(data_field, locations[i].tag)
                          = {[tag |-> locations[i].tag, command |-> locations[i].command,
                              key |-> locations[i].key]}

\* LuxMiner Hashboards was collected with voltageget "0" answered: the
\* output has an entry under VOLTAGE_0 and one under VOLTAGE_PSU
C24_Witness ==
    /\ col_pc = "done" /\ col_backend = "LuxMinerV1"
    /\ RpcWith("voltageget", "0") \in cache
    /\ EntriesUnder("Hashboards", "VOLTAGE_0") # {}
    /\ EntriesUnder("Hashboards", "VOLTAGE_PSU") # {}

(***************************************************************************)
(* The adaptive limit after several builder calls                          *)
(***************************************************************************)
\* C25: when the caller never set a limit, the limit a scan runs with is
\* the adaptive value for the address list the factory holds when the scan
\* starts, whatever lists it held before.
C25_LimitFollowsCurrentList ==
    scan_pc = "running" =>
        /\ Len(ips) <= 100 => concurrent_limit = 25
        /\ (100 < Len(ips) /\ Len(ips) <= 1000) => concurrent_limit = 50

(***************************************************************************)
(* Braiins sessions                                                        *)
(***************************************************************************)
\* the commands that were issued while no session id was stored and that
\* call ensure_authenticated
EarlyCommands == {i \in Commands : cmd_pc[i] # "idle" /\ cmd_privileged[i] /\ ~cmd_late[i]}

\* C26: when several commands are issued concurrently on a transport
\* without a stored session, one login obtains a session and every one of
\* those commands is sent with that session id.
C26_SingleLogin ==
    /\ issued <= 1
    /\ \A i, j \in EarlyCommands :
          (sent_with[i] # NotSent /\ sent_with[j] # NotSent) => sent_with[i] = sent_with[j]

\* C27: a stored session id is never cleared, and a command that starts
\* while one is stored never logs in, whatever other commands returned.
C27_SessionNeverCleared ==
    [][/\ session_id # NoSession => session_id' # NoSession
       /\ \A i \in Commands :
             cmd_late'[i] =>
                /\ cmd_pc'[i] \notin {"authenticate", "store"}
                /\ cmd_session'[i] = NoSession]_vars

\* a command got an HTTP error with the session id, and a command issued
\* with the session stored has returned after the one login
C27_Witness ==
    \E i, j \in Commands :
        /\ cmd_result[j] = "HttpError" /\ sent_with[j] # NoSession
        /\ cmd_late[i] /\ cmd_privileged[i] /\ cmd_pc[i] = "done"
        /\ sent_with[i] = sent_with[j]
        /\ logins = 1

(***************************************************************************)
(* Retries of the ESPMiner transport                                       *)
(***************************************************************************)
\* what holds of the attempts of one send_command call at every moment
AttemptsBounded ==
    /\ Len(attempts) <= retries + 1
    /\ \A k \in 1..(Len(attempts) - 1) : attempts[k] # "Ok"
    /\ retry_pc = "loop" => \A k \in 1..Len(attempts) : attempts[k] # "Ok"
    /\ retry_pc = "done" =>
          /\ attempts # <<>>
          /\ retry_ret = attempts[Len(attempts)]
          /\ retry_ret # "Ok" => Len(attempts) = retries + 1
          /\ retry_ret # "MaxRetriesExceeded"

\* C28: one send_command call makes at most retries + 1 attempts, returns
\* the value of the first attempt that succeeds and makes none after it,
\* otherwise returns the error of the last attempt, never
\* MaxRetriesExceeded, and always returns.
C28_BoundedRetries ==
    /\ []AttemptsBounded
    /\ (retry_pc = "loop") ~> (retry_pc = "done")

\* with retries = 1 the first attempt failed and the second succeeded
C28_Witness ==
    /\ retry_pc = "done" /\ retries = 1
    /\ attempts = <<"HttpError", "Ok">>
    /\ retry_ret = "Ok"

(***************************************************************************)
(* Removing from the search lists                                          *)
(***************************************************************************)
\* C29: once remove_search_make(m), or remove_search_firmware(f), was the
\* last edit of the search lists, m (or f) is not among the makes (or
\* firmwares) whose discovery Commands get_miner gathers, also when the
\* list had never been set.
C29_RemovedIsNotSearched ==
    /\ call.fn = "remove_search_make" => call.arg \notin SearchedMakes
    /\ call.fn = "remove_search_firmware" => call.arg \notin SearchedFirmwares

(***************************************************************************)
(* unreachable!() arms                                                     *)
(***************************************************************************)
\* C30: no get_miner call reaches an unreachable!() arm: the model stage
\* never panics, because every resolver that get_model dispatches to asks
\* parse_model for a make or firmware it handles, and an AvalonMiner
\* device gets no backend constructed at all.
C30_NoUnreachableArm ==
    [][/\ (gm_pc = "model" /\ gm_pc' # "model") => gm_pc' = "version"
       /\ (gm_pc' \in {"model", "version"} /\ ModelResolverFactory(miner_info').called) =>
             ~ParseModelUnreachable(ModelResolverFactory(miner_info').make,
                                    ModelResolverFactory(miner_info').firmware)
       /\ (gm_pc' \in {"done", "panicked"} /\ miner_info'.make = "AvalonMiner") =>
             (ret' = NoBackend /\ model' = NoModel)]_vars

\* a device known by its firmware only had its model parsed
C30_Witness ==
    /\ gm_pc = "version"
    /\ miner_info = SomeType(None, "BraiinsOS")
    /\ model.some

====
